---- MODULE Spec2Model ----
(***************************************************************************)
(* Recipient-attachment reconciliation of batchmail.                       *)
(*                                                                         *)
(* CsvUploader.tsx owns the recipient table (csv), the column mapping and  *)
(* the manual-entry row; it hands a table and a mapping to its consumer    *)
(* through onParsed.  AttachmentsUploader.tsx receives the consumer's      *)
(* table, mapping and attachment index (value), derives the reconciliation *)
(* result and the batch restriction flag from them and replaces the index  *)
(* through onChange.                                                       *)
(*                                                                         *)
(* app/actions/auth.ts and lib/auth keep the session in the batchmail_auth *)
(* cookie; proxy.ts protects the routes by that cookie.                    *)
(*                                                                         *)
(* A JavaScript string is a sequence of one-character strings, so that     *)
(* trimming, case folding, searching and slicing are computed.  A null or  *)
(* undefined object is the record Null, a null or undefined string is      *)
(* NullString, which is no sequence of characters.                         *)
(***************************************************************************)
EXTENDS Integers, Sequences, FiniteSets, TLC

VARIABLES
    csv,             \* CsvUploader state: ParsedCsv or Null
    mapping,         \* CsvUploader state: CsvMapping or Null
    error,           \* CsvUploader state: the error message or Null
    showManualEntry, \* CsvUploader state
    manualRow,       \* CsvUploader state: column name -> string
    pCsv,            \* consumer: the table last handed over by onParsed
    pMapping,        \* consumer: the mapping last handed over by onParsed
    value,           \* consumer: the attachment index (AttachIndex)
    uploads,         \* AttachmentsUploader: the onUpload calls in progress
    isUploading,     \* AttachmentsUploader state
    uploadError,     \* AttachmentsUploader state: the failure report or Null
    env,             \* process.env: ADMIN_EMAIL and ADMIN_PASSWORD
    cookieStore,     \* the browser's batchmail_auth cookie or NullString
    now,             \* Date.now(), in milliseconds from the model's origin
    response,        \* what the last server action or proxy call returned
    navigation,      \* the browser's navigation: where it began and its last hop
    profileStore,    \* lib/auth: profile name -> EnvMap
    activeProfileName \* lib/auth: the active profile's name or NullString

vars == <<csv, mapping, error, showManualEntry, manualRow, pCsv, pMapping,
          value, uploads, isUploading, uploadError,
          env, cookieStore, now, response,
          navigation, profileStore, activeProfileName>>

tableVars == <<csv, mapping, error, showManualEntry, manualRow, pCsv, pMapping>>
attachVars == <<value, uploads, isUploading, uploadError>>
authVars == <<env, cookieStore, now, response>>
profileVars == <<profileStore, activeProfileName>>

Null == [null |-> TRUE]
NullString == <<"(null)">>

----------------------------------------------------------------------------
(* Bounds of the model.                                                    *)

MaxRows == 2      \* rows a manual append may grow the table to
MaxEntries == 2   \* attachment entries the index may grow to
MaxUploads == 1   \* onUpload calls in progress at once
MaxFiles == 2     \* files chosen in one onUpload call
MaxOverlap == 2   \* onUpload calls in progress at once where calls overlap
MaxNameLen == 4   \* characters of an enumerated filename
MaxHeaders == 2   \* columns of an enumerated header row
MaxTicks == 2     \* milliseconds the clock is read at after the first and after maxAge

----------------------------------------------------------------------------
(* Strings.                                                                *)

UpperChars == <<"A","B","C","D","E","F","G","H","I","J","K","L","M",
                "N","O","P","Q","R","S","T","U","V","W","X","Y","Z">>
LowerChars == <<"a","b","c","d","e","f","g","h","i","j","k","l","m",
                "n","o","p","q","r","s","t","u","v","w","x","y","z">>

WhiteSpace == {" ", "\t"}

ToLowerChar(c) ==
    IF \E i \in 1..26 : UpperChars[i] = c
    THEN LowerChars[CHOOSE i \in 1..26 : UpperChars[i] = c]
    ELSE c

\* String.prototype.toLowerCase
ToLowerCase(s) == [i \in 1..Len(s) |-> ToLowerChar(s[i])]

\* String.prototype.trim
RECURSIVE TrimStart(_)
TrimStart(s) ==
    IF s # <<>> /\ Head(s) \in WhiteSpace THEN TrimStart(Tail(s)) ELSE s

RECURSIVE TrimEnd(_)
TrimEnd(s) ==
    IF s # <<>> /\ s[Len(s)] \in WhiteSpace
    THEN TrimEnd(SubSeq(s, 1, Len(s) - 1))
    ELSE s

Trim(s) == TrimEnd(TrimStart(s))

\* String.prototype.lastIndexOf for a one-character pattern, 0-based, -1 when absent
LastIndexOf(s, c) ==
    IF \E i \in 1..Len(s) : s[i] = c
    THEN (CHOOSE i \in 1..Len(s) : s[i] = c /\ \A j \in (i+1)..Len(s) : s[j] # c) - 1
    ELSE -1

\* String.prototype.includes
Includes(s, pat) ==
    \E i \in 0..(Len(s) - Len(pat)) : SubSeq(s, i + 1, i + Len(pat)) = pat

\* String.prototype.endsWith
EndsWith(s, pat) ==
    /\ Len(s) >= Len(pat)
    /\ SubSeq(s, Len(s) - Len(pat) + 1, Len(s)) = pat

\* the truthiness of a string or null operand of || and of if
Truthy(v) == v # NullString /\ v # <<>>

----------------------------------------------------------------------------
(* The strings the model's inputs are built from.                          *)

S_email == <<"e", "m", "a", "i", "l">>
S_name == <<"n", "a", "m", "e">>
S_JaneDoe == <<"J", "a", "n", "e", " ", "D", "o", "e">>
S_JANEdoe == <<"J", "A", "N", "E", " ", " ", "d", "o", "e", " ">>
S_Bob == <<"B", "o", "b">>
S_jx == <<"j", "@", "x">>
S_bx == <<"b", "@", "x">>
S_space == <<" ">>

----------------------------------------------------------------------------
(* CsvUploader.tsx: the column mapping resolver.                           *)

\* the alternatives of /^(email|e-mail|recipient|to|address)$/
RecipientWords ==
    { <<"e", "m", "a", "i", "l">>, <<"e", "-", "m", "a", "i", "l">>, <<"r", "e", "c", "i", "p", "i", "e", "n", "t">>, <<"t", "o">>, <<"a", "d", "d", "r", "e", "s", "s">> }

\* the alternatives of /^(name|full[_\s-]?name|first[_\s-]?name)$/
NameSeparators == {<<>>, <<"_">>, <<"-">>} \cup {<<w>> : w \in WhiteSpace}
NameWords ==
    { <<"n", "a", "m", "e">> }
        \cup { <<"f", "u", "l", "l">> \o sep \o <<"n", "a", "m", "e">> : sep \in NameSeparators }
        \cup { <<"f", "i", "r", "s", "t">> \o sep \o <<"n", "a", "m", "e">> : sep \in NameSeparators }

\* the alternatives of /^(subject|title|headline|topic)$/
SubjectWords ==
    { <<"s", "u", "b", "j", "e", "c", "t">>, <<"t", "i", "t", "l", "e">>, <<"h", "e", "a", "d", "l", "i", "n", "e">>, <<"t", "o", "p", "i", "c">> }

\* FindHeader with regexes that lack the i flag
FindHeaderExact(headers, words) ==
    IF \E i \in 1..Len(headers) : headers[i] \in words
    THEN headers[CHOOSE i \in 1..Len(headers) :
                    /\ headers[i] \in words
                    /\ \A j \in 1..(i - 1) : headers[j] \notin words]
    ELSE NullString

\* Array.prototype.find over the headers: the first header whose whole,
\* case-folded text is one of the words (the regexes carry the i flag), or NullString
FindHeader(headers, words) ==
    IF \E i \in 1..Len(headers) : ToLowerCase(headers[i]) \in words
    THEN headers[CHOOSE i \in 1..Len(headers) :
                    /\ ToLowerCase(headers[i]) \in words
                    /\ \A j \in 1..(i - 1) : ToLowerCase(headers[j]) \notin words]
    ELSE NullString

\* a || b || ""  over the found header and headers[0]
FirstTruthy(found, headers) ==
    IF Truthy(found) THEN found
    ELSE IF headers # <<>> /\ Truthy(headers[1]) THEN headers[1]
    ELSE <<>>

guessRecipient(headers) == FirstTruthy(FindHeader(headers, RecipientWords), headers)

guessName(headers) == FirstTruthy(FindHeader(headers, NameWords), headers)

guessSubject(headers) ==
    LET found == FindHeader(headers, SubjectWords)
    IN  IF Truthy(found) THEN found ELSE NullString

DEFAULT_HEADERS == <<S_email, S_name>>


----------------------------------------------------------------------------
(* CsvUploader.tsx: the recipient table.                                   *)

\* a row is a function from column names to strings
Row1(h1, v1) == h1 :> v1
Row2(h1, v1, h2, v2) == (h1 :> v1) @@ (h2 :> v2)

\* the ParsedCsv built from Papa's results (handleFile, addManualRow, delete)
ParsedCsv(headers, rows) == [headers |-> headers, rows |-> rows, rowCount |-> Len(rows)]

\* what Papa.parse reports for the files a user may choose: meta.fields and data
resultsNone == [fields |-> <<>>, data |-> <<>>]
resultsA ==
    [fields |-> <<S_name, S_email>>,
     data |-> <<Row2(S_name, S_JaneDoe, S_email, S_jx), Row2(S_name, S_Bob, S_email, S_bx)>>]
resultsDup ==
    [fields |-> <<S_name, S_email>>,
     data |-> <<Row2(S_name, S_JANEdoe, S_email, S_jx), Row2(S_name, S_JaneDoe, S_email, S_bx)>>]
resultsB ==
    [fields |-> <<S_email>>,
     data |-> <<Row1(S_email, S_jx)>>]

CsvFiles == {resultsNone, resultsA, resultsDup, resultsB}

\* Header rows in every order of column names that the patterns match in
\* lower case, match in another case, match with a separator, and do not
\* match (one of them a pattern word with a letter after it); Papa gives
\* every column of a file a name of its own.
S_EMail == <<"E", "-", "M", "a", "i", "l">>
S_To == <<"T", "o">>
S_FullName == <<"F", "u", "l", "l", " ", "N", "a", "m", "e">>
S_first_name == <<"f", "i", "r", "s", "t", "_", "n", "a", "m", "e">>
S_TITLE == <<"T", "I", "T", "L", "E">>
S_topic == <<"t", "o", "p", "i", "c">>
S_id == <<"i", "d">>
S_names == <<"n", "a", "m", "e", "s">>
S_Address == <<"A", "d", "d", "r", "e", "s", "s">>

GuessHeaders ==
    {S_email, S_EMail, S_To, S_Address, S_name, S_FullName, S_first_name, S_TITLE, S_topic,
     S_id, S_names}

HeaderRows ==
    {hs \in UNION {[1..n -> GuessHeaders] : n \in 1..MaxHeaders} :
        \A i, j \in 1..Len(hs) : i # j => hs[i] # hs[j]}

GuessFiles == {[fields |-> hs, data |-> <<>>] : hs \in HeaderRows}

\* what a user may type into a cell of the manual-entry row
ManualValues == {<<>>, S_space, S_JANEdoe}

ErrNoHeaders == [message |-> "No headers found. Ensure the first row contains column names."]
ErrRequired == [message |-> "Email/recipient field is required."]

\* r[h] || ""
Cell(r, h) == IF h # NullString /\ h \in DOMAIN r /\ Truthy(r[h]) THEN r[h] ELSE <<>>

\* the row with every header set to ""
BlankRow(headers) == [h \in {headers[i] : i \in 1..Len(headers)} |-> <<>>]

HeaderSet(c) == {c.headers[i] : i \in 1..Len(c.headers)}

\* the consumer's onParsed callback keeps the table and the mapping it is given
onParsed(c, m) ==
    /\ pCsv' = c
    /\ pMapping' = m

\* handleFile taking a file without a header row as a table of no columns
handleFileNoCheck(results) ==
    LET parsed == ParsedCsv(results.fields, results.data)
        nextMapping ==
            [recipient |-> IF mapping # Null /\ Truthy(mapping.recipient)
                           THEN mapping.recipient ELSE guessRecipient(results.fields),
             name |-> IF mapping # Null /\ Truthy(mapping.name)
                      THEN mapping.name ELSE guessName(results.fields),
             subject |-> IF mapping # Null /\ mapping.subject # NullString
                         THEN mapping.subject ELSE guessSubject(results.fields)]
    IN  /\ error' = Null
        /\ csv' = parsed
        /\ mapping' = nextMapping
        /\ onParsed(parsed, nextMapping)
        /\ UNCHANGED <<showManualEntry, manualRow>>

\* handleFile with Papa's complete callback, for one chosen file; the
\* callback reads the mapping of the render that called handleFile
handleFile(results) ==
    LET rows == results.data
        headers == results.fields
    IN  IF Len(headers) = 0
        THEN /\ error' = ErrNoHeaders
             /\ UNCHANGED <<csv, mapping, showManualEntry, manualRow, pCsv, pMapping>>
        ELSE LET parsed == ParsedCsv(headers, rows)
                 nextMapping ==
                    [recipient |-> IF mapping # Null /\ Truthy(mapping.recipient)
                                   THEN mapping.recipient ELSE guessRecipient(headers),
                     name |-> IF mapping # Null /\ Truthy(mapping.name)
                              THEN mapping.name ELSE guessName(headers),
                     subject |-> IF mapping # Null /\ mapping.subject # NullString
                                 THEN mapping.subject ELSE guessSubject(headers)]
             IN  /\ error' = Null
                 /\ csv' = parsed
                 /\ mapping' = nextMapping
                 /\ onParsed(parsed, nextMapping)
                 /\ UNCHANGED <<showManualEntry, manualRow>>

\* onChangeSelect building the mapping from the blank default
onChangeSelectFromBlank(key, v) ==
    /\ csv # Null
    /\ LET prev == [recipient |-> <<>>, name |-> <<>>, subject |-> NullString]
           next == [prev EXCEPT ![key] = IF Truthy(v) THEN v ELSE NullString]
       IN  /\ mapping' = next
           /\ onParsed(csv, next)
    /\ UNCHANGED <<csv, error, showManualEntry, manualRow>>

\* onChangeSelect: the select of one mapping field is set to one of its options
onChangeSelect(key, v) ==
    /\ csv # Null
    /\ LET prev == IF mapping # Null THEN mapping
                   ELSE [recipient |-> <<>>, name |-> <<>>, subject |-> NullString]
           next == [prev EXCEPT ![key] = IF Truthy(v) THEN v ELSE NullString]
       IN  /\ mapping' = next
           /\ onParsed(csv, next)
    /\ UNCHANGED <<csv, error, showManualEntry, manualRow>>

\* initializeManualEntry creating the default table over an existing one
initializeManualEntryAlways ==
    /\ csv' = ParsedCsv(DEFAULT_HEADERS, <<>>)
    /\ mapping' = [recipient |-> S_email, name |-> S_name, subject |-> NullString]
    /\ manualRow' = Row2(S_email, <<>>, S_name, <<>>)
    /\ showManualEntry' = TRUE
    /\ UNCHANGED <<error, pCsv, pMapping>>

initializeManualEntry ==
    /\ IF csv = Null
       THEN /\ csv' = ParsedCsv(DEFAULT_HEADERS, <<>>)
            /\ mapping' = [recipient |-> S_email, name |-> S_name, subject |-> NullString]
            /\ manualRow' = Row2(S_email, <<>>, S_name, <<>>)
       ELSE /\ manualRow' = BlankRow(csv.headers)
            /\ UNCHANGED <<csv, mapping>>
    /\ showManualEntry' = TRUE
    /\ UNCHANGED <<error, pCsv, pMapping>>

\* the input of one cell of the manual-entry row
setManualRow(header, v) ==
    /\ showManualEntry
    /\ manualRow' = (header :> v) @@ manualRow
    /\ UNCHANGED <<csv, mapping, error, showManualEntry, pCsv, pMapping>>

\* addManualRow testing the recipient value as typed, untrimmed
addManualRowUntrimmed ==
    LET headers == IF csv # Null THEN csv.headers ELSE DEFAULT_HEADERS
        currentMapping == IF mapping # Null THEN mapping
                          ELSE [recipient |-> S_email, name |-> S_name, subject |-> NullString]
        recipientKey == IF Truthy(currentMapping.recipient)
                        THEN currentMapping.recipient ELSE S_email
    IN  /\ showManualEntry
        /\ IF ~ (recipientKey \in DOMAIN manualRow /\ Truthy(manualRow[recipientKey]))
           THEN /\ error' = ErrRequired
                /\ UNCHANGED <<csv, mapping, showManualEntry, manualRow, pCsv, pMapping>>
           ELSE LET newRows == Append(IF csv # Null THEN csv.rows ELSE <<>>, manualRow)
                    parsed == ParsedCsv(headers, newRows)
                IN  /\ csv' = parsed
                    /\ onParsed(parsed, currentMapping)
                    /\ manualRow' = BlankRow(headers)
                    /\ error' = Null
                    /\ UNCHANGED <<mapping, showManualEntry>>

\* addManualRow putting the new row before the rows of the table
addManualRowFirst ==
    LET headers == IF csv # Null THEN csv.headers ELSE DEFAULT_HEADERS
        currentMapping == IF mapping # Null THEN mapping
                          ELSE [recipient |-> S_email, name |-> S_name, subject |-> NullString]
        recipientKey == IF Truthy(currentMapping.recipient)
                        THEN currentMapping.recipient ELSE S_email
    IN  /\ showManualEntry
        /\ IF ~ (recipientKey \in DOMAIN manualRow /\ Truthy(Trim(manualRow[recipientKey])))
           THEN /\ error' = ErrRequired
                /\ UNCHANGED <<csv, mapping, showManualEntry, manualRow, pCsv, pMapping>>
           ELSE LET newRows == <<manualRow>> \o (IF csv # Null THEN csv.rows ELSE <<>>)
                    parsed == ParsedCsv(headers, newRows)
                IN  /\ csv' = parsed
                    /\ onParsed(parsed, currentMapping)
                    /\ manualRow' = BlankRow(headers)
                    /\ error' = Null
                    /\ UNCHANGED <<mapping, showManualEntry>>

addManualRow ==
    LET headers == IF csv # Null THEN csv.headers ELSE DEFAULT_HEADERS
        currentMapping == IF mapping # Null THEN mapping
                          ELSE [recipient |-> S_email, name |-> S_name, subject |-> NullString]
        recipientKey == IF Truthy(currentMapping.recipient)
                        THEN currentMapping.recipient ELSE S_email
    IN  /\ showManualEntry
        /\ IF ~ (recipientKey \in DOMAIN manualRow /\ Truthy(Trim(manualRow[recipientKey])))
           THEN /\ error' = ErrRequired
                /\ UNCHANGED <<csv, mapping, showManualEntry, manualRow, pCsv, pMapping>>
           ELSE LET newRows == Append(IF csv # Null THEN csv.rows ELSE <<>>, manualRow)
                    parsed == ParsedCsv(headers, newRows)
                IN  /\ csv' = parsed
                    /\ onParsed(parsed, currentMapping)
                    /\ manualRow' = BlankRow(headers)
                    /\ error' = Null
                    /\ UNCHANGED <<mapping, showManualEntry>>

cancelManualEntry ==
    /\ showManualEntry
    /\ showManualEntry' = FALSE
    /\ manualRow' = <<>>
    /\ error' = Null
    /\ UNCHANGED <<csv, mapping, pCsv, pMapping>>

\* deleteRow removing the last row, whichever row's button was pressed
deleteRowLast(rowIndex) ==
    /\ showManualEntry
    /\ csv # Null
    /\ rowIndex \in 0..(Len(csv.rows) - 1)
    /\ LET newRows == SubSeq(csv.rows, 1, Len(csv.rows) - 1)
           parsed == ParsedCsv(csv.headers, newRows)
       IN  /\ csv' = parsed
           /\ IF mapping # Null
              THEN onParsed(parsed, mapping)
              ELSE UNCHANGED <<pCsv, pMapping>>
    /\ UNCHANGED <<mapping, error, showManualEntry, manualRow>>

\* the Delete button of row rowIndex (0-based) of the manual-entry table
deleteRow(rowIndex) ==
    /\ showManualEntry
    /\ csv # Null
    /\ rowIndex \in 0..(Len(csv.rows) - 1)
    /\ LET newRows == SubSeq(csv.rows, 1, rowIndex) \o SubSeq(csv.rows, rowIndex + 2, Len(csv.rows))
           parsed == ParsedCsv(csv.headers, newRows)
       IN  /\ csv' = parsed
           /\ IF mapping # Null
              THEN onParsed(parsed, mapping)
              ELSE UNCHANGED <<pCsv, pMapping>>
    /\ UNCHANGED <<mapping, error, showManualEntry, manualRow>>

\* the Reset button
reset ==
    /\ csv # Null
    /\ csv' = Null
    /\ mapping' = Null
    /\ error' = Null
    /\ showManualEntry' = FALSE
    /\ manualRow' = <<>>
    /\ UNCHANGED <<pCsv, pMapping>>


----------------------------------------------------------------------------
(* lib/normalizeName: the key normalizer.                                  *)

\* every run of whitespace becomes one space
RECURSIVE CollapseWhiteSpace(_)
CollapseWhiteSpace(s) ==
    IF s = <<>> THEN <<>>
    ELSE IF Head(s) \in WhiteSpace
         THEN <<" ">> \o CollapseWhiteSpace(TrimStart(Tail(s)))
         ELSE <<Head(s)>> \o CollapseWhiteSpace(Tail(s))

\* normalizeNameKey taking one whitespace character off each end
normalizeNameKeyTrimOne(s) ==
    LET low == ToLowerCase(s)
        front == IF low # <<>> /\ Head(low) \in WhiteSpace THEN Tail(low) ELSE low
        back == IF front # <<>> /\ front[Len(front)] \in WhiteSpace
                THEN SubSeq(front, 1, Len(front) - 1) ELSE front
    IN  back

\* case folded, trimmed, inner whitespace runs collapsed
normalizeNameKey(s) == CollapseWhiteSpace(Trim(ToLowerCase(s)))

----------------------------------------------------------------------------
(* AttachmentsUploader.tsx: the attachment index.                          *)

\* The index is the list of its buckets in the order the keys were inserted,
\* the order Object.entries and Object.values enumerate them in.
Keys(index) == {index[i].key : i \in 1..Len(index)}

\* index[key] || []
Bucket(index, key) ==
    IF key \in Keys(index)
    THEN index[CHOOSE i \in 1..Len(index) : index[i].key = key].arr
    ELSE <<>>

\* index[key] = arr
SetBucket(index, key, arr) ==
    IF key \in Keys(index)
    THEN [i \in 1..Len(index) |->
            IF index[i].key = key THEN [key |-> key, arr |-> arr] ELSE index[i]]
    ELSE Append(index, [key |-> key, arr |-> arr])

RECURSIVE SumLen(_)
SumLen(index) ==
    IF index = <<>> THEN 0 ELSE Len(Head(index).arr) + SumLen(Tail(index))

\* fileBaseName cutting at a "." that is the first character too
fileBaseNameAnyDot(name) ==
    LET idx == LastIndexOf(name, ".")
    IN  IF idx >= 0 THEN SubSeq(name, 1, idx) ELSE name

fileBaseName(name) ==
    LET idx == LastIndexOf(name, ".")
    IN  IF idx > 0 THEN SubSeq(name, 1, idx) ELSE name

\* A chosen file: name, type ("" when the browser knows none), content,
\* whether reading it succeeds, and size (absent on a file-like without one).
HasSize(f) == "size" \in DOMAIN f

\* the AttachmentEntry of a file that was read
EntryOf(file) ==
    [filename |-> file.name, contentBase64 |-> file.content]
        @@ (IF Truthy(file.type) THEN [contentType |-> file.type] ELSE <<>>)
        @@ (IF HasSize(file) THEN [sizeBytes |-> file.size] ELSE <<>>)

S_unknown == <<"(", "u", "n", "k", "n", "o", "w", "n", ")">>

\* DecodeOne giving up the remaining files at the first failure
DecodeOneAbort(u) ==
    LET file == u.files[u.i]
        normalized == normalizeNameKey(fileBaseName(file.name))
    IN  IF file.readable
        THEN [u EXCEPT !.i = u.i + 1,
                       !.next = SetBucket(u.next, normalized,
                                          Append(Bucket(u.next, normalized), EntryOf(file)))]
        ELSE [u EXCEPT !.i = Len(u.files) + 1,
                       !.failed = Append(u.failed,
                                         IF Truthy(file.name) THEN file.name ELSE S_unknown)]

\* DecodeOne overwriting the bucket of the key
DecodeOneOverwrite(u) ==
    LET file == u.files[u.i]
        normalized == normalizeNameKey(fileBaseName(file.name))
    IN  IF file.readable
        THEN [u EXCEPT !.i = u.i + 1,
                       !.next = SetBucket(u.next, normalized, <<EntryOf(file)>>)]
        ELSE [u EXCEPT !.i = u.i + 1,
                       !.failed = Append(u.failed,
                                         IF Truthy(file.name) THEN file.name ELSE S_unknown)]

\* DecodeOne putting the entry before those the bucket holds
DecodeOnePrepend(u) ==
    LET file == u.files[u.i]
        normalized == normalizeNameKey(fileBaseName(file.name))
    IN  IF file.readable
        THEN [u EXCEPT !.i = u.i + 1,
                       !.next = SetBucket(u.next, normalized,
                                          <<EntryOf(file)>> \o Bucket(u.next, normalized))]
        ELSE [u EXCEPT !.i = u.i + 1,
                       !.failed = Append(u.failed,
                                         IF Truthy(file.name) THEN file.name ELSE S_unknown)]

\* one iteration of onUpload's loop over the chosen files
DecodeOne(u) ==
    LET file == u.files[u.i]
        normalized == normalizeNameKey(fileBaseName(file.name))
    IN  IF file.readable
        THEN [u EXCEPT !.i = u.i + 1,
                       !.next = SetBucket(u.next, normalized,
                                          Append(Bucket(u.next, normalized), EntryOf(file)))]
        ELSE [u EXCEPT !.i = u.i + 1,
                       !.failed = Append(u.failed,
                                         IF Truthy(file.name) THEN file.name ELSE S_unknown)]

\* `Failed: ${failed.slice(0, 6).join(", ")}${failed.length > 6 ? "..." : ""}`
FailedMessage(failed) ==
    [failed |-> SubSeq(failed, 1, IF Len(failed) > 6 THEN 6 ELSE Len(failed)),
     more |-> Len(failed) > 6]

RemoveAt(seq, k) == SubSeq(seq, 1, k - 1) \o SubSeq(seq, k + 1, Len(seq))

\* onUpload up to its first await: the index of this render is copied
onUploadStart(files) ==
    /\ Len(files) > 0
    /\ uploadError' = Null
    /\ isUploading' = TRUE
    /\ uploads' = Append(uploads, [files |-> files, i |-> 1, base |-> value,
                                   next |-> value, failed |-> <<>>])
    /\ UNCHANGED value

\* onUpload resumes after fileToBase64 of its current file settled
onUploadDecode(k) ==
    /\ k \in 1..Len(uploads)
    /\ uploads[k].i <= Len(uploads[k].files)
    /\ uploads' = [uploads EXCEPT ![k] = DecodeOne(uploads[k])]
    /\ UNCHANGED <<value, isUploading, uploadError>>

\* onUpload after its loop: the report, onChange(next) and the finally block
onUploadFinish(k) ==
    /\ k \in 1..Len(uploads)
    /\ uploads[k].i > Len(uploads[k].files)
    /\ uploadError' = IF Len(uploads[k].failed) > 0
                      THEN FailedMessage(uploads[k].failed) ELSE uploadError
    /\ value' = uploads[k].next
    /\ isUploading' = FALSE
    /\ uploads' = RemoveAt(uploads, k)

\* the Clear button, enabled while the index holds a file
clearAll ==
    /\ SumLen(value) # 0
    /\ value' = <<>>
    /\ UNCHANGED <<uploads, isUploading, uploadError>>

----------------------------------------------------------------------------
(* actions/attachments.ts: the server action.                              *)

\* a form value with a name and an arrayBuffer method
isFileLike(v) == "name" \in DOMAIN v /\ "readable" \in DOMAIN v

\* the loop of uploadAttachmentsAction over the files
RECURSIVE actionLoop(_, _)
actionLoop(files, acc) ==
    IF files = <<>> THEN acc
    ELSE LET file == Head(files)
         IN  actionLoop(Tail(files),
                IF file.readable
                THEN [acc EXCEPT !.items = Append(acc.items,
                        [key |-> normalizeNameKey(fileBaseName(file.name)),
                         entry |-> EntryOf(file)])]
                ELSE [acc EXCEPT !.failed = Append(acc.failed,
                        IF Truthy(file.name) THEN file.name ELSE S_unknown)])

\* input: whether it is a FormData, and its values under "files"
uploadAttachmentsAction(input) ==
    IF ~ input.isFormData THEN [ok |-> FALSE, error |-> "Invalid form data"]
    ELSE LET files == SelectSeq(input.files, isFileLike)
         IN  IF Len(files) = 0 THEN [ok |-> FALSE, error |-> "No files provided"]
             ELSE LET done == actionLoop(files, [items |-> <<>>, failed |-> <<>>])
                  IN  [ok |-> TRUE, items |-> done.items, failed |-> done.failed]

----------------------------------------------------------------------------
(* AttachmentsUploader.tsx: the reconciler and the batch policy.           *)

\* rowsNameSet comparing the names as they are written
rowsNameSetRaw(c, m) ==
    IF c = Null \/ m = Null THEN {}
    ELSE {Cell(c.rows[i], m.name) : i \in 1..Len(c.rows)}

rowsNameSet(c, m) ==
    IF c = Null \/ m = Null THEN {}
    ELSE {normalizeNameKey(Cell(c.rows[i], m.name)) : i \in 1..Len(c.rows)}

\* mapping?.name || ""
NameColumn(m) == IF m # Null /\ Truthy(m.name) THEN m.name ELSE <<>>

\* originalName taking the last row of that name
originalNameLast(c, m, key) ==
    LET col == NameColumn(m)
        hit(i) == normalizeNameKey(Cell(c.rows[i], col)) = key
    IN  IF c # Null /\ \E i \in 1..Len(c.rows) : hit(i)
        THEN LET last == CHOOSE i \in 1..Len(c.rows) :
                             hit(i) /\ \A j \in (i + 1)..Len(c.rows) : ~ hit(j)
             IN  IF Truthy(Cell(c.rows[last], col)) THEN Cell(c.rows[last], col) ELSE key
        ELSE key

\* csv?.rows.find(...)?.[mapping?.name || ""] || key
originalName(c, m, key) ==
    LET col == NameColumn(m)
        hit(i) == normalizeNameKey(Cell(c.rows[i], col)) = key
    IN  IF c # Null /\ \E i \in 1..Len(c.rows) : hit(i)
        THEN LET first == CHOOSE i \in 1..Len(c.rows) :
                              hit(i) /\ \A j \in 1..(i - 1) : ~ hit(j)
             IN  IF Truthy(Cell(c.rows[first], col)) THEN Cell(c.rows[first], col) ELSE key
        ELSE key

Filenames(arr) == [i \in 1..Len(arr) |-> arr[i].filename]

\* computedLoop counting a matched bucket as one file
RECURSIVE computedLoopOnePerBucket(_, _, _, _, _)
computedLoopOnePerBucket(c, m, names, entries, acc) ==
    IF entries = <<>> THEN acc
    ELSE LET key == Head(entries).key
             arr == Head(entries).arr
         IN  computedLoopOnePerBucket(c, m, names, Tail(entries),
                IF key \in names
                THEN [acc EXCEPT !.matched = acc.matched + 1,
                                 !.matchedPairs = Append(acc.matchedPairs,
                                     [name |-> originalName(c, m, key),
                                      files |-> Filenames(arr)])]
                ELSE [acc EXCEPT !.unmatchedFiles = acc.unmatchedFiles \o Filenames(arr)])

\* the loop of computed over Object.entries(value)
RECURSIVE computedLoop(_, _, _, _, _)
computedLoop(c, m, names, entries, acc) ==
    IF entries = <<>> THEN acc
    ELSE LET key == Head(entries).key
             arr == Head(entries).arr
         IN  computedLoop(c, m, names, Tail(entries),
                IF key \in names
                THEN [acc EXCEPT !.matched = acc.matched + Len(arr),
                                 !.matchedPairs = Append(acc.matchedPairs,
                                     [name |-> originalName(c, m, key),
                                      files |-> Filenames(arr)])]
                ELSE [acc EXCEPT !.unmatchedFiles = acc.unmatchedFiles \o Filenames(arr)])

\* computed with one match pair for every row that carries a bucket's name
computedPerRow(c, m, index) ==
    LET files == SumLen(index)
        names == rowsNameSet(c, m)
        rowKeys == IF c = Null \/ m = Null THEN <<>>
                   ELSE [i \in 1..Len(c.rows) |-> normalizeNameKey(Cell(c.rows[i], m.name))]
        hits == SelectSeq(rowKeys, LAMBDA k : k \in Keys(index))
        done == computedLoop(c, m, names, index,
                    [matched |-> 0, unmatchedFiles |-> <<>>, matchedPairs |-> <<>>])
    IN  [files |-> files, matched |-> done.matched, unmatched |-> files - done.matched,
         unmatchedFiles |-> done.unmatchedFiles,
         matchedPairs |-> [i \in 1..Len(hits) |->
                              [name |-> originalName(c, m, hits[i]),
                               files |-> Filenames(Bucket(index, hits[i]))]]]

computed(c, m, index) ==
    LET files == SumLen(index)
        done == computedLoop(c, m, rowsNameSet(c, m), index,
                    [matched |-> 0, unmatchedFiles |-> <<>>, matchedPairs |-> <<>>])
    IN  [files |-> files, matched |-> done.matched, unmatched |-> files - done.matched,
         unmatchedFiles |-> done.unmatchedFiles, matchedPairs |-> done.matchedPairs]

PdfMin == 1024 * 1024
PdfMax == 2 * 1024 * 1024
S_pdf == <<"p", "d", "f">>
S_dotpdf == <<".", "p", "d", "f">>

\* largePdfEntry with the lower limit excluded
largePdfEntryAboveMin(entry) ==
    LET size == IF "sizeBytes" \in DOMAIN entry THEN entry.sizeBytes ELSE 0
        filename == ToLowerCase(entry.filename)
        mime == ToLowerCase(IF "contentType" \in DOMAIN entry THEN entry.contentType ELSE <<>>)
        isPdf == Includes(mime, S_pdf) \/ EndsWith(filename, S_dotpdf)
    IN  isPdf /\ size > PdfMin /\ size <= PdfMax

largePdfEntry(entry) ==
    LET size == IF "sizeBytes" \in DOMAIN entry THEN entry.sizeBytes ELSE 0
        filename == ToLowerCase(entry.filename)
        mime == ToLowerCase(IF "contentType" \in DOMAIN entry THEN entry.contentType ELSE <<>>)
        isPdf == Includes(mime, S_pdf) \/ EndsWith(filename, S_dotpdf)
    IN  isPdf /\ size >= PdfMin /\ size <= PdfMax

\* largePdfDetected looking only at the buckets of the recipients
largePdfDetectedMatched(index) ==
    \E b \in 1..Len(index) :
        /\ index[b].key \in rowsNameSet(pCsv, pMapping)
        /\ \E e \in 1..Len(index[b].arr) : largePdfEntry(index[b].arr[e])

largePdfDetected(index) ==
    \E b \in 1..Len(index) : \E e \in 1..Len(index[b].arr) : largePdfEntry(index[b].arr[e])


----------------------------------------------------------------------------
(* The files a user may choose for upload.                                 *)

fileJanePdf ==
    [name |-> <<"j", "a", "n", "e", " ", "d", "o", "e", ".", "p", "d", "f">>, type |-> <<"a", "p", "p", "l", "i", "c", "a", "t", "i", "o", "n", "/", "p", "d", "f">>, content |-> "c1", readable |-> TRUE, size |-> 1258291]
fileJaneTxt ==
    [name |-> <<"J", "a", "n", "e", " ", " ", "D", "o", "e", ".", "T", "X", "T">>, type |-> <<>>, content |-> "c2", readable |-> TRUE, size |-> 10]
fileCarol ==
    [name |-> <<"c", "a", "r", "o", "l", ".", "p", "n", "g">>, type |-> <<"i", "m", "a", "g", "e", "/", "p", "n", "g">>, content |-> "c3", readable |-> TRUE, size |-> 10]
fileBroken ==
    [name |-> <<"b", "o", "b", ".", "p", "d", "f">>, type |-> <<"a", "p", "p", "l", "i", "c", "a", "t", "i", "o", "n", "/", "p", "d", "f">>, content |-> "c4", readable |-> FALSE, size |-> 10]

Files == {fileJanePdf, fileJaneTxt, fileCarol, fileBroken}

\* Files of every size around the limits of the batch policy, each one a PDF
\* by its declared type only, a PDF by its name only, or no PDF at all.
PdfKinds ==
    { [name |-> <<"r", ".", "t", "x", "t">>, type |-> <<"A", "p", "p", "l", "i", "c", "a", "t", "i", "o", "n", "/", "P", "D", "F">>],
      [name |-> <<"r", ".", "P", "D", "F">>, type |-> <<>>],
      [name |-> <<"p", "d", "f">>, type |-> <<"i", "m", "a", "g", "e", "/", "p", "n", "g">>] }

PdfSizes == {500000, 1048575, 1048576, 2097152, 2097153}

SizedFiles ==
    { [name |-> k.name, type |-> k.type, content |-> "c5", readable |-> TRUE, size |-> n] :
        k \in PdfKinds, n \in PdfSizes }
    \cup { [name |-> k.name, type |-> k.type, content |-> "c5", readable |-> TRUE] :
        k \in PdfKinds }

\* Filenames with dots at every position, and the names of the documentation
S_report_v2_pdf == <<"r", "e", "p", "o", "r", "t", ".", "v", "2", ".", "p", "d", "f">>
S_report_v2 == <<"r", "e", "p", "o", "r", "t", ".", "v", "2">>
S_README == <<"R", "E", "A", "D", "M", "E">>
S_gitignore == <<".", "g", "i", "t", "i", "g", "n", "o", "r", "e">>

NameChars == {".", "a", "b"}

FileNames ==
    UNION {[1..n -> NameChars] : n \in 1..MaxNameLen}
        \cup {S_report_v2_pdf, S_README, S_gitignore}

NamedFiles ==
    { [name |-> n, type |-> <<>>, content |-> "c6", readable |-> TRUE, size |-> 10] :
        n \in FileNames }

\* Filenames without a dot, of letters in both cases and whitespace
KeyChars == {" ", "\t", "a", "A"}

SpacedNames == UNION {[1..n -> KeyChars] : n \in 1..MaxNameLen}

SpacedFiles ==
    { [name |-> n, type |-> <<>>, content |-> "c7", readable |-> TRUE, size |-> 10] :
        n \in SpacedNames }

\* the FileLists of one change event of the file input that the index has room for
FileLists(pool) ==
    LET room == MaxEntries - SumLen(value)
    IN  UNION {[1..n -> pool] : n \in 1..(IF room < MaxFiles THEN room ELSE MaxFiles)}

----------------------------------------------------------------------------
(* Characters, numbers and the conversions between them.                   *)

\* the printable characters of ASCII, from code 32 to code 126; the grave
\* accent, which no string of a module can hold, is written by its code
Ascii ==
    <<
    " ", "!", "\"", "#", "$", "%", "&", "'", "(", ")", "*", "+",
    ",", "-", ".", "/", "0", "1", "2", "3", "4", "5", "6", "7",
    "8", "9", ":", ";", "<", "=", ">", "?", "@", "A", "B", "C",
    "D", "E", "F", "G", "H", "I", "J", "K", "L", "M", "N", "O",
    "P", "Q", "R", "S", "T", "U", "V", "W", "X", "Y", "Z", "[",
    "\\", "]", "^", "_", "U+0060", "a", "b", "c", "d", "e", "f", "g",
    "h", "i", "j", "k", "l", "m", "n", "o", "p", "q", "r", "s",
    "t", "u", "v", "w", "x", "y", "z", "{", "|", "}", "~" >>

\* a character no table holds: what a decoder writes for a byte it cannot read
Replacement == "U+FFFD"

\* String.prototype.charCodeAt, and the UTF-8 bytes of an ASCII string
AsciiCodes ==
    [c \in {Ascii[i] : i \in 1..Len(Ascii)} |->
        31 + (CHOOSE i \in 1..Len(Ascii) : Ascii[i] = c)]

CharCode(c) == AsciiCodes[c]

Bytes(s) == [i \in 1..Len(s) |-> CharCode(s[i])]

\* Buffer.prototype.toString("utf-8")
FromBytes(bytes) ==
    [i \in 1..Len(bytes) |->
        IF bytes[i] >= 32 /\ bytes[i] <= 126 THEN Ascii[bytes[i] - 31] ELSE Replacement]

Base64Chars ==
    <<
    "A", "B", "C", "D", "E", "F", "G", "H", "I", "J", "K", "L", "M",
    "N", "O", "P", "Q", "R", "S", "T", "U", "V", "W", "X", "Y", "Z",
    "a", "b", "c", "d", "e", "f", "g", "h", "i", "j", "k", "l", "m",
    "n", "o", "p", "q", "r", "s", "t", "u", "v", "w", "x", "y", "z",
    "0", "1", "2", "3", "4", "5", "6", "7", "8", "9", "+", "/" >>

RECURSIVE EncodeBytes(_)
EncodeBytes(bytes) ==
    IF bytes = <<>> THEN <<>>
    ELSE IF Len(bytes) = 1
    THEN << Base64Chars[(bytes[1] \div 4) + 1],
            Base64Chars[((bytes[1] % 4) * 16) + 1], "=", "=" >>
    ELSE IF Len(bytes) = 2
    THEN << Base64Chars[(bytes[1] \div 4) + 1],
            Base64Chars[((bytes[1] % 4) * 16) + (bytes[2] \div 16) + 1],
            Base64Chars[((bytes[2] % 16) * 4) + 1], "=" >>
    ELSE << Base64Chars[(bytes[1] \div 4) + 1],
            Base64Chars[((bytes[1] % 4) * 16) + (bytes[2] \div 16) + 1],
            Base64Chars[((bytes[2] % 16) * 4) + (bytes[3] \div 64) + 1],
            Base64Chars[(bytes[3] % 64) + 1] >>
         \o EncodeBytes(SubSeq(bytes, 4, Len(bytes)))

\* Buffer.from(s).toString("base64")
ToBase64(s) == EncodeBytes(Bytes(s))

\* the six-bit values of the characters of the base64 alphabet in a string;
\* the decoder passes over every other character
Base64Values ==
    [c \in {Base64Chars[i] : i \in 1..64} |->
        (CHOOSE i \in 1..64 : Base64Chars[i] = c) - 1]

RECURSIVE Sextets(_)
Sextets(s) ==
    IF s = <<>> THEN <<>>
    ELSE IF Head(s) \in DOMAIN Base64Values
         THEN <<Base64Values[Head(s)]>> \o Sextets(Tail(s))
         ELSE Sextets(Tail(s))

RECURSIVE DecodeSextets(_)
DecodeSextets(x) ==
    IF Len(x) < 2 THEN <<>>
    ELSE IF Len(x) = 2
    THEN << (x[1] * 4) + (x[2] \div 16) >>
    ELSE IF Len(x) = 3
    THEN << (x[1] * 4) + (x[2] \div 16), ((x[2] % 16) * 16) + (x[3] \div 4) >>
    ELSE << (x[1] * 4) + (x[2] \div 16), ((x[2] % 16) * 16) + (x[3] \div 4),
            ((x[3] % 4) * 64) + x[4] >>
         \o DecodeSextets(SubSeq(x, 5, Len(x)))

\* Buffer.from(s, "base64").toString("utf-8")
FromBase64(s) == FromBytes(DecodeSextets(Sextets(s)))

DigitChars == <<"0", "1", "2", "3", "4", "5", "6", "7", "8", "9">>

DigitValues ==
    [c \in {DigitChars[i] : i \in 1..10} |->
        (CHOOSE i \in 1..10 : DigitChars[i] = c) - 1]

IsDigit(c) == c \in DOMAIN DigitValues

DigitValue(c) == DigitValues[c]

\* the decimal numeral a template literal writes for a non-negative integer
RECURSIVE NumberToString(_)
NumberToString(n) ==
    IF n < 10 THEN <<DigitChars[n + 1]>>
    ELSE NumberToString(n \div 10) \o <<DigitChars[(n % 10) + 1]>>

\* a JavaScript number: an integer or NaN
Num(n) == [nan |-> FALSE, n |-> n]
NaN == [nan |-> TRUE, n |-> 0]

\* the value of the longest prefix of digits, read from the left
RECURSIVE DigitsValue(_, _)
DigitsValue(s, acc) ==
    IF s # <<>> /\ IsDigit(Head(s))
    THEN DigitsValue(Tail(s), (acc * 10) + DigitValue(Head(s)))
    ELSE acc

\* parseInt(s, 10): leading whitespace is skipped, a sign is read, the digits
\* that follow are the value and what follows them is ignored
parseInt(s) ==
    LET t == TrimStart(s)
        signed == t # <<>> /\ Head(t) \in {"-", "+"}
        u == IF signed THEN Tail(t) ELSE t
    IN  IF u = <<>> \/ ~IsDigit(Head(u)) THEN NaN
        ELSE IF signed /\ Head(t) = "-" THEN Num(0 - DigitsValue(u, 0))
        ELSE Num(DigitsValue(u, 0))

\* String.prototype.split for a one-character separator
RECURSIVE Split(_, _)
Split(s, c) ==
    IF \E i \in 1..Len(s) : s[i] = c
    THEN LET i == CHOOSE i \in 1..Len(s) : s[i] = c /\ \A j \in 1..(i - 1) : s[j] # c
         IN  <<SubSeq(s, 1, i - 1)>> \o Split(SubSeq(s, i + 1, Len(s)), c)
    ELSE <<s>>

\* an element of a destructured array: undefined past its end
Element(arr, i) == IF i <= Len(arr) THEN arr[i] ELSE NullString

\* String.prototype.startsWith
StartsWith(s, pat) == Len(s) >= Len(pat) /\ SubSeq(s, 1, Len(pat)) = pat

----------------------------------------------------------------------------
(* lib/auth: the admin credentials and the token.                          *)

S_ax == <<"a", "@", "x">>
S_AX_padded == <<"A", "@", "X", " ">>
S_Ax_led == <<" ", "A", "@", "x">>
S_colon == <<"a", ":", "1", "@", "x">>
S_pw == <<"p", "w">>
S_Pw == <<"P", "w">>

\* process.env as a deployment may set it: a variable that is not set is
\* NullString
EnvAdmin == [ADMIN_EMAIL |-> S_AX_padded, ADMIN_PASSWORD |-> S_pw]

Envs ==
    { EnvAdmin,
      [ADMIN_EMAIL |-> NullString, ADMIN_PASSWORD |-> NullString],
      [ADMIN_EMAIL |-> S_ax, ADMIN_PASSWORD |-> NullString],
      [ADMIN_EMAIL |-> S_ax, ADMIN_PASSWORD |-> <<>>],
      [ADMIN_EMAIL |-> S_space, ADMIN_PASSWORD |-> S_pw],
      [ADMIN_EMAIL |-> S_colon, ADMIN_PASSWORD |-> S_pw] }

getAdminCredentials ==
    [ email |-> IF env.ADMIN_EMAIL = NullString THEN NullString
                ELSE ToLowerCase(Trim(env.ADMIN_EMAIL)),
      password |-> env.ADMIN_PASSWORD ]

\* validateCredentials comparing the email as it was typed
validateCredentialsAsTyped(email, password) ==
    LET admin == getAdminCredentials
    IN  IF ~Truthy(admin.email) \/ ~Truthy(admin.password) THEN FALSE
        ELSE email = admin.email /\ password = admin.password

validateCredentials(email, password) ==
    LET admin == getAdminCredentials
    IN  IF ~Truthy(admin.email) \/ ~Truthy(admin.password) THEN FALSE
        ELSE LET emailNorm == ToLowerCase(Trim(email))
             IN  emailNorm = admin.email /\ password = admin.password

generateAuthToken(email) ==
    LET timestamp == now
        payload == email \o <<":">> \o NumberToString(timestamp)
    IN  ToBase64(payload)

\* 7 days in ms
maxAge == 7 * 24 * 60 * 60 * 1000

\* the token's age when the clock reads clock: a number or NaN, and NaN is
\* less than nothing
tokenAge(timestamp, clock) ==
    LET parsed == parseInt(timestamp)
    IN  IF parsed.nan THEN NaN ELSE Num(clock - parsed.n)

\* isValidToken accepting a token that is exactly maxAge old
isValidTokenAtInclusive(token, clock) ==
    IF ~Truthy(token) THEN FALSE
    ELSE LET decoded == FromBase64(token)
             email == Element(Split(decoded, ":"), 1)
             timestamp == Element(Split(decoded, ":"), 2)
         IN  IF ~Truthy(email) \/ ~Truthy(timestamp) THEN FALSE
             ELSE /\ ~tokenAge(timestamp, clock).nan
                  /\ tokenAge(timestamp, clock).n <= maxAge

\* isValidToken when Date.now() reads clock
isValidTokenAt(token, clock) ==
    IF ~Truthy(token) THEN FALSE
    ELSE LET decoded == FromBase64(token)
             email == Element(Split(decoded, ":"), 1)
             timestamp == Element(Split(decoded, ":"), 2)
         IN  IF ~Truthy(email) \/ ~Truthy(timestamp) THEN FALSE
             ELSE /\ ~tokenAge(timestamp, clock).nan
                  /\ tokenAge(timestamp, clock).n < maxAge

isValidToken(token) == isValidTokenAt(token, now)

----------------------------------------------------------------------------
(* lib/auth: the sender profiles.                                          *)

\* {}: an EnvMap without a key
EmptyEnv == [k \in {} |-> <<>>]

\* Map.prototype.has, get and set: the entries keep the order in which their
\* keys were first set
MapHas(store, key) == \E i \in 1..Len(store) : store[i].name = key

MapGet(store, key) ==
    IF MapHas(store, key)
    THEN store[CHOOSE i \in 1..Len(store) : store[i].name = key].env
    ELSE Null

MapSet(store, key, e) ==
    IF MapHas(store, key)
    THEN [i \in 1..Len(store) |->
              IF store[i].name = key THEN [name |-> key, env |-> e] ELSE store[i]]
    ELSE Append(store, [name |-> key, env |-> e])

listProfilesOf(store) == [i \in 1..Len(store) |-> store[i].name]

listProfiles == listProfilesOf(profileStore)

getActiveProfileName == activeProfileName

\* setProfile storing the name as it was given
setProfileAsTyped(name, e) ==
    /\ profileStore' = MapSet(profileStore, name, e)
    /\ activeProfileName' = name

setProfile(name, e) ==
    LET trimmed == Trim(IF Truthy(name) THEN name ELSE <<>>)
    IN  IF ~Truthy(trimmed)
        THEN UNCHANGED <<profileStore, activeProfileName>>
        ELSE /\ profileStore' = MapSet(profileStore, trimmed, e)
             /\ activeProfileName' = trimmed

clearAllProfiles ==
    /\ profileStore' = <<>>
    /\ activeProfileName' = NullString

\* what getActiveEnv returns for a store and an active name
getActiveEnvOf(store, active) ==
    IF ~Truthy(active) THEN EmptyEnv
    ELSE IF MapGet(store, active) # Null THEN MapGet(store, active)
    ELSE EmptyEnv

getActiveEnv == getActiveEnvOf(profileStore, activeProfileName)

----------------------------------------------------------------------------
(* app/actions/auth.ts: the server actions.                                *)

M_required == "Email and password are required"
M_invalid == "Invalid email or password"

\* what loginAction returns
loginResult(email, password) ==
    IF ~Truthy(email) \/ ~Truthy(password)
    THEN [success |-> FALSE, error |-> M_required]
    ELSE IF ~validateCredentials(email, password)
    THEN [success |-> FALSE, error |-> M_invalid]
    ELSE [success |-> TRUE]

loginAction(email, password) ==
    /\ response' = loginResult(email, password)
    /\ IF loginResult(email, password).success
       THEN cookieStore' = generateAuthToken(email)
       ELSE UNCHANGED cookieStore

\* logoutAction answering without touching the cookie
logoutActionKeepsCookie ==
    /\ UNCHANGED cookieStore
    /\ response' = [success |-> TRUE]

\* the cookie is set to the empty string, to expire at once
logoutAction ==
    /\ cookieStore' = <<>>
    /\ response' = [success |-> TRUE]

\* what checkAuthAction returns for a cookie when Date.now() reads clock
checkAuthFor(token, clock) ==
    IF ~Truthy(token) \/ ~isValidTokenAt(token, clock)
    THEN [authenticated |-> FALSE]
    ELSE LET decoded == FromBase64(token)
             email == Element(Split(decoded, ":"), 1)
         IN  [authenticated |-> TRUE, email |-> email]

\* what checkAuthAction returns for the cookie the store holds
checkAuthResult == checkAuthFor(cookieStore, now)

checkAuthAction ==
    /\ response' = checkAuthResult
    /\ UNCHANGED cookieStore

----------------------------------------------------------------------------
(* URLs: the query string of a request and of a redirect.                  *)

HexChars == <<"0", "1", "2", "3", "4", "5", "6", "7",
              "8", "9", "A", "B", "C", "D", "E", "F">>

IsHex(c) == \E i \in 1..16 : HexChars[i] = c \/ ToLowerChar(HexChars[i]) = c

HexValue(c) == (CHOOSE i \in 1..16 : HexChars[i] = c \/ ToLowerChar(HexChars[i]) = c) - 1

AlnumChars ==
    DOMAIN DigitValues \cup {UpperChars[i] : i \in 1..26} \cup {LowerChars[i] : i \in 1..26}

IsAlnum(c) == c \in AlnumChars

\* the serializer of URLSearchParams: letters, digits and * - . _ stay, a
\* space becomes +, every other character becomes % and its code in hex
RECURSIVE FormEncode(_)
FormEncode(s) ==
    IF s = <<>> THEN <<>>
    ELSE (IF IsAlnum(Head(s)) \/ Head(s) \in {"*", "-", ".", "_"} THEN <<Head(s)>>
          ELSE IF Head(s) = " " THEN <<"+">>
          ELSE << "%", HexChars[(CharCode(Head(s)) \div 16) + 1],
                  HexChars[(CharCode(Head(s)) % 16) + 1] >>)
         \o FormEncode(Tail(s))

\* the parser of URLSearchParams
RECURSIVE FormDecode(_)
FormDecode(s) ==
    IF s = <<>> THEN <<>>
    ELSE IF Head(s) = "%" /\ Len(s) >= 3 /\ IsHex(s[2]) /\ IsHex(s[3])
    THEN FromBytes(<<(HexValue(s[2]) * 16) + HexValue(s[3])>>)
             \o FormDecode(SubSeq(s, 4, Len(s)))
    ELSE IF Head(s) = "+" THEN <<" ">> \o FormDecode(Tail(s))
    ELSE <<Head(s)>> \o FormDecode(Tail(s))

\* the name and the value of one name=value pair of a query string
PairName(pair) == FormDecode(Head(Split(pair, "=")))

PairValue(pair) ==
    IF \E i \in 1..Len(pair) : pair[i] = "="
    THEN FormDecode(SubSeq(pair, Len(Head(Split(pair, "="))) + 2, Len(pair)))
    ELSE <<>>

RECURSIVE FirstValue(_, _)
FirstValue(pairs, name) ==
    IF pairs = <<>> THEN NullString
    ELSE IF Head(pairs) # <<>> /\ PairName(Head(pairs)) = name
    THEN PairValue(Head(pairs))
    ELSE FirstValue(Tail(pairs), name)

\* URL.searchParams.get: the first value of the name, null without one
searchParamsGet(search, name) ==
    FirstValue(Split(IF StartsWith(search, <<"?">>) THEN Tail(search) ELSE search, "&"),
               name)

\* the part of a URL before its query string and the query string itself
UrlPathname(url) == Head(Split(url, "?"))

UrlSearch(url) == SubSeq(url, Len(UrlPathname(url)) + 1, Len(url))

----------------------------------------------------------------------------
(* proxy.ts: route protection.                                             *)

S_redirect == <<"r", "e", "d", "i", "r", "e", "c", "t">>
S_root == <<"/">>
S_login == <<"/", "l", "o", "g", "i", "n">>
S_signup == <<"/", "s", "i", "g", "n", "u", "p">>
S_favicon == <<"/", "f", "a", "v", "i", "c", "o", "n", ".", "i", "c", "o">>
S_api == <<"/", "a", "p", "i", "/">>
S_text_html == <<"t", "e", "x", "t", "/", "h", "t", "m", "l">>

PUBLIC_PATH_PREFIXES == << <<"/", "_", "n", "e", "x", "t">>, S_api, <<"/", "t", "e", "m", "p", "l", "a", "t", "e", "s">>, <<"/", "i", "m", "a", "g", "e", "s">>, <<"/", "f", "o", "n", "t", "s">> >>

PUBLIC_PATHS == {S_login, S_signup, S_favicon}

StaticExts ==
    { <<"p", "n", "g">>, <<"j", "p", "g">>, <<"j", "p", "e", "g">>, <<"g", "i", "f">>, <<"s", "v", "g">>, <<"w", "e", "b", "p">>, <<"i", "c", "o">>, <<"t", "x", "t">>,
      <<"j", "s", "o", "n">>, <<"x", "m", "l">>, <<"c", "s", "s">>, <<"j", "s">>, <<"m", "a", "p">> }

\* /\.(png|jpg|...|map)$/i: no alternative holds a dot, so it is what
\* follows the last dot that has to be one of them, in either case
STATIC_EXT(pathname) ==
    /\ LastIndexOf(pathname, ".") >= 0
    /\ ToLowerCase(SubSeq(pathname, LastIndexOf(pathname, ".") + 2, Len(pathname)))
           \in StaticExts

\* isPublicPath over a set of public paths
PublicAmong(pathname, paths) ==
    IF pathname = S_root THEN FALSE
    ELSE IF STATIC_EXT(pathname) THEN TRUE
    ELSE IF pathname \in paths THEN TRUE
    ELSE IF \E i \in 1..Len(PUBLIC_PATH_PREFIXES) :
                StartsWith(pathname, PUBLIC_PATH_PREFIXES[i]) THEN TRUE
    ELSE \E base \in paths : StartsWith(pathname, base \o <<"/">>)

isPublicPath(pathname) == PublicAmong(pathname, PUBLIC_PATHS)

\* /\.[a-zA-Z0-9]+$/
hasExt(pathname) ==
    \E i \in 1..(Len(pathname) - 1) :
        /\ pathname[i] = "."
        /\ \A j \in (i + 1)..Len(pathname) : IsAlnum(pathname[j])

isHtmlRequest(req) ==
    LET accept == IF Truthy(req.accept) THEN req.accept ELSE <<>>
    IN  IF Includes(accept, S_text_html) THEN TRUE
        ELSE ~hasExt(req.pathname) /\ ~StartsWith(req.pathname, S_api)

\* NextResponse.next() and NextResponse.redirect(url)
ResponseNext == [kind |-> "next"]

ResponseRedirect(url) == [kind |-> "redirect", location |-> url]

\* the redirect from the login page that falls back on the login page
RedirectToAppBackToLogin(req) ==
    LET dest == searchParamsGet(req.search, S_redirect)
        target == IF Truthy(dest) /\ StartsWith(dest, S_root) THEN dest ELSE S_login
    IN  ResponseRedirect(target)

\* the redirect back into the app from the login page
RedirectToApp(req) ==
    LET dest == searchParamsGet(req.search, S_redirect)
        target == IF Truthy(dest) /\ StartsWith(dest, S_root) THEN dest ELSE S_root
    IN  ResponseRedirect(target)

\* the redirect to the login page that carries only the path
RedirectToLoginPathOnly(req) ==
    ResponseRedirect(S_login \o <<"?", "r", "e", "d", "i", "r", "e", "c", "t", "=">> \o FormEncode(req.pathname))

\* the redirect to the login page from a protected route
RedirectToLogin(req) ==
    LET search == IF Truthy(req.search) THEN req.search ELSE <<>>
        target == req.pathname \o search
    IN  ResponseRedirect(S_login \o <<"?">> \o FormEncode(S_redirect) \o <<"=">>
                             \o FormEncode(IF Truthy(target) THEN target ELSE S_root))

proxy(req) ==
    LET pathname == req.pathname
        token == req.cookie
    IN  IF pathname = S_login \/ pathname = S_signup
        THEN IF Truthy(token) THEN RedirectToApp(req) ELSE ResponseNext
        ELSE IF isPublicPath(pathname) THEN ResponseNext
        ELSE IF ~isHtmlRequest(req) THEN ResponseNext
        ELSE IF ~Truthy(token) THEN RedirectToLogin(req)
        ELSE ResponseNext

----------------------------------------------------------------------------
(* The proxy that validates the token (part_003).                          *)

PUBLIC_PATHS003 == {S_login, S_favicon}

isPublicPath003(pathname) == PublicAmong(pathname, PUBLIC_PATHS003)

proxy003(req) ==
    LET pathname == req.pathname
        token == req.cookie
        isAuthenticated == isValidToken(token)
    IN  IF pathname = S_login
        THEN IF isAuthenticated THEN RedirectToApp(req) ELSE ResponseNext
        ELSE IF isPublicPath003(pathname) THEN ResponseNext
        ELSE IF ~isHtmlRequest(req) THEN ResponseNext
        ELSE IF ~isAuthenticated THEN RedirectToLogin(req)
        ELSE ResponseNext

----------------------------------------------------------------------------
(* The proxy that takes every path under /login for the login page         *)
(* (part_002).                                                             *)

PUBLIC_PATHS002 == {S_login, S_favicon, <<"/", "a", "p", "i", "/", "a", "u", "t", "h", "/", "l", "o", "g", "i", "n">>, <<"/", "a", "p", "i", "/", "a", "u", "t", "h", "/", "l", "o", "g", "o", "u", "t">>}

isPublicPath002(pathname) == PublicAmong(pathname, PUBLIC_PATHS002)

proxy002(req) ==
    LET pathname == req.pathname
        token == req.cookie
    IN  IF StartsWith(pathname, S_login)
        THEN IF Truthy(token) THEN RedirectToApp(req) ELSE ResponseNext
        ELSE IF isPublicPath002(pathname) THEN ResponseNext
        ELSE IF ~isHtmlRequest(req) THEN ResponseNext
        ELSE IF ~Truthy(token) THEN RedirectToLogin(req)
        ELSE ResponseNext

----------------------------------------------------------------------------
(* A navigation: the browser sends a request and follows the redirects it  *)
(* is answered with.                                                       *)

\* the proxy file the server runs
ProxyFiles == {"src/proxy.ts", "src/unnamed/part_002"}

ProxyOf(file, req) == IF file = "src/proxy.ts" THEN proxy(req) ELSE proxy002(req)

\* the query string that asks the login page to go on to target
RedirectSearch(target) == <<"?">> \o S_redirect \o <<"=">> \o FormEncode(target)

NavigationPathnames ==
    { S_root, S_login, S_signup, <<"/", "l", "o", "g", "i", "n", "x">>, <<"/", "l", "o", "g", "i", "n", "/", "x">>, <<"/", "a", "p", "p">>, <<"/", "a", "p", "i", "/", "s", "e", "n", "d">>, <<"/", "d", "o", "c", ".", "p", "d", "f">> }

\* query strings, among them those that send the login page on to the login
\* page, once and twice over, and to the sign-up page and back
NavigationSearches ==
    { <<>>, <<"?", "a", "=", "1">>, <<"?", "r", "e", "d", "i", "r", "e", "c", "t", "=", "a", "p", "p">>, RedirectSearch(<<"/", "a", "p", "p">>),
      RedirectSearch(S_login), RedirectSearch(<<"/", "l", "o", "g", "i", "n", "x">>),
      RedirectSearch(S_login \o RedirectSearch(S_login)),
      RedirectSearch(S_signup \o RedirectSearch(S_login)) }

\* the request for the location of a redirect: new URL(target, req.url)
\* resolved on the same site, sent with the headers and the cookie of req
RequestFor(location, req) ==
    [pathname |-> UrlPathname(location), search |-> UrlSearch(location),
     accept |-> req.accept, cookie |-> req.cookie]

\* the navigation has been answered with a page
Settled == navigation # Null /\ navigation.response.kind = "next"

----------------------------------------------------------------------------
(* The requests and the cookies a browser sends.                           *)

Pathnames ==
    { S_root, S_login, S_signup, S_favicon, <<"/", "l", "o", "g", "i", "n", "x">>, <<"/", "l", "o", "g", "i", "n", "/", "x">>,
      <<"/", "a", "p", "p">>, <<"/", "a", "p", "i", "/", "s", "e", "n", "d">>, <<"/", "l", "o", "g", "o", ".", "P", "N", "G">>, <<"/", "d", "o", "c", ".", "p", "d", "f">>,
      <<"/", "t", "e", "m", "p", "l", "a", "t", "e", "s">> }

Searches == { <<>>, <<"?", "a", "=", "1">>, <<"?", "r", "e", "d", "i", "r", "e", "c", "t", "=", "%", "2", "F", "a", "p", "p">>, <<"?", "r", "e", "d", "i", "r", "e", "c", "t", "=", "a", "p", "p">> }

Accepts == { NullString, <<"*", "/", "*">>, <<"t", "e", "x", "t", "/", "h", "t", "m", "l", ",", "a", "p", "p", "l", "i", "c", "a", "t", "i", "o", "n", "/", "x", "h", "t", "m", "l", "+", "x", "m", "l">> }

\* the requests the browser may send with the cookie it holds
Requests ==
    { [pathname |-> p, search |-> s, accept |-> a, cookie |-> cookieStore] :
          p \in Pathnames, s \in Searches, a \in Accepts }

\* cookies no loginAction wrote: payloads without a timestamp, without an
\* email, with a timestamp that is no number, and a value that is not base64
ForgedCookies ==
    { ToBase64(S_ax), ToBase64(<<"a", "@", "x", ":">>), ToBase64(<<":", "5">>), ToBase64(<<"a", "@", "x", ":", "s", "o", "o", "n">>),
      <<"!">> }

----------------------------------------------------------------------------
(* The system.                                                             *)

Init ==
    /\ csv = Null
    /\ mapping = Null
    /\ error = Null
    /\ showManualEntry = FALSE
    /\ manualRow = <<>>
    /\ pCsv = Null
    /\ pMapping = Null
    /\ value = <<>>
    /\ uploads = <<>>
    /\ isUploading = FALSE
    /\ uploadError = Null
    /\ env = EnvAdmin
    /\ cookieStore = NullString
    /\ now = 0
    /\ response = Null
    /\ navigation = Null
    /\ profileStore = <<>>
    /\ activeProfileName = NullString

CurrentHeaders == IF csv # Null THEN csv.headers ELSE DEFAULT_HEADERS

HandleFile == \E results \in CsvFiles : handleFile(results) /\ UNCHANGED <<attachVars, authVars, navigation, profileVars>>

ChangeRecipient ==
    \E i \in 1..Len(CurrentHeaders) :
        onChangeSelect("recipient", CurrentHeaders[i]) /\ UNCHANGED <<attachVars, authVars, navigation, profileVars>>

ChangeName ==
    \E i \in 1..Len(CurrentHeaders) :
        onChangeSelect("name", CurrentHeaders[i]) /\ UNCHANGED <<attachVars, authVars, navigation, profileVars>>

ChangeSubject ==
    \E i \in 0..Len(CurrentHeaders) :
        onChangeSelect("subject", IF i = 0 THEN <<>> ELSE CurrentHeaders[i])
            /\ UNCHANGED <<attachVars, authVars, navigation, profileVars>>

\* a file chosen while the component holds no mapping
LoadFirst ==
    \E results \in GuessFiles :
        /\ mapping = Null
        /\ handleFile(results)
        /\ UNCHANGED <<attachVars, authVars, navigation, profileVars>>

InitializeManualEntry == initializeManualEntry /\ UNCHANGED <<attachVars, authVars, navigation, profileVars>>

SetManualRow ==
    \E i \in 1..Len(CurrentHeaders), v \in ManualValues :
        setManualRow(CurrentHeaders[i], v) /\ UNCHANGED <<attachVars, authVars, navigation, profileVars>>

AddManualRow ==
    /\ csv # Null => Len(csv.rows) < MaxRows
    /\ addManualRow
    /\ UNCHANGED <<attachVars, authVars, navigation, profileVars>>

CancelManualEntry == cancelManualEntry /\ UNCHANGED <<attachVars, authVars, navigation, profileVars>>

DeleteRow ==
    /\ csv # Null
    /\ \E i \in 0..(Len(csv.rows) - 1) : deleteRow(i) /\ UNCHANGED <<attachVars, authVars, navigation, profileVars>>

Reset == reset /\ UNCHANGED <<attachVars, authVars, navigation, profileVars>>

UploadStart ==
    \E files \in FileLists(Files) :
        /\ Len(uploads) < MaxUploads
        /\ onUploadStart(files)
        /\ UNCHANGED <<tableVars, authVars, navigation, profileVars>>

\* an upload chosen while no other is in progress
UploadAlone ==
    \E files \in FileLists(Files) :
        /\ uploads = <<>>
        /\ onUploadStart(files)
        /\ UNCHANGED <<tableVars, authVars, navigation, profileVars>>

\* an upload of files of the sizes and types the batch policy tells apart
UploadSized ==
    \E files \in FileLists(SizedFiles) :
        /\ uploads = <<>>
        /\ onUploadStart(files)
        /\ UNCHANGED <<tableVars, authVars, navigation, profileVars>>

\* one file of any of the enumerated names, chosen for an empty index
UploadNamed ==
    \E file \in NamedFiles :
        /\ uploads = <<>>
        /\ value = <<>>
        /\ onUploadStart(<<file>>)
        /\ UNCHANGED <<tableVars, authVars, navigation, profileVars>>

\* one file of any of the names of letters and whitespace, chosen for an
\* empty index
UploadSpaced ==
    \E file \in SpacedFiles :
        /\ uploads = <<>>
        /\ value = <<>>
        /\ onUploadStart(<<file>>)
        /\ UNCHANGED <<tableVars, authVars, navigation, profileVars>>

\* one PDF of a size within the limits, chosen for an empty index
UploadHazard ==
    /\ uploads = <<>>
    /\ value = <<>>
    /\ onUploadStart(<<fileJanePdf>>)
    /\ UNCHANGED <<tableVars, authVars, navigation, profileVars>>

\* an upload chosen while earlier ones are still decoding: the file input
\* stays enabled while isUploading
UploadOverlap ==
    \E files \in FileLists(Files) :
        /\ Len(uploads) < MaxOverlap
        /\ onUploadStart(files)
        /\ UNCHANGED <<tableVars, authVars, navigation, profileVars>>

UploadDecode == \E k \in 1..Len(uploads) : onUploadDecode(k) /\ UNCHANGED <<tableVars, authVars, navigation, profileVars>>

UploadFinish == \E k \in 1..Len(uploads) : onUploadFinish(k) /\ UNCHANGED <<tableVars, authVars, navigation, profileVars>>

ClearAll == clearAll /\ UNCHANGED <<tableVars, authVars, navigation, profileVars>>

\* what is typed into the login form
Emails == {<<>>, S_space, S_ax, S_Ax_led, S_bx, S_colon}

Passwords == {<<>>, S_pw, S_Pw}

Login ==
    \E email \in Emails, password \in Passwords :
        /\ loginAction(email, password)
        /\ UNCHANGED <<tableVars, attachVars, navigation, profileVars, env, now>>

Logout == logoutAction /\ UNCHANGED <<tableVars, attachVars, navigation, profileVars, env, now>>

CheckAuth == checkAuthAction /\ UNCHANGED <<tableVars, attachVars, navigation, profileVars, env, now>>

\* the instants the clock is read at: the first milliseconds, and those
\* around maxAge later
Instants == (0..MaxTicks) \cup ((maxAge - 1)..(maxAge + MaxTicks))

\* the clock advances to a later instant
Tick ==
    \E t \in Instants :
        /\ t > now
        /\ now' = t
        /\ UNCHANGED <<tableVars, attachVars, navigation, profileVars, env, cookieStore, response>>

\* the server is started again with another environment
Deploy ==
    \E e \in Envs :
        /\ env' = e
        /\ UNCHANGED <<tableVars, attachVars, navigation, profileVars, cookieStore, now, response>>

\* the cookie is edited in the browser
ForgeCookie ==
    \E c \in ForgedCookies :
        /\ cookieStore' = c
        /\ UNCHANGED <<tableVars, attachVars, navigation, profileVars, env, now, response>>

Proxy ==
    \E req \in Requests :
        /\ response' = proxy(req)
        /\ UNCHANGED <<tableVars, attachVars, navigation, profileVars, env, cookieStore, now>>

Proxy003 ==
    \E req \in Requests :
        /\ response' = proxy003(req)
        /\ UNCHANGED <<tableVars, attachVars, navigation, profileVars, env, cookieStore, now>>

\* the browser opens a URL with the cookie it holds
Navigate ==
    \E file \in ProxyFiles, p \in NavigationPathnames, s \in NavigationSearches, a \in Accepts :
        LET req == [pathname |-> p, search |-> s, accept |-> a, cookie |-> cookieStore]
            answer == ProxyOf(file, req)
        IN  /\ navigation = Null
            /\ navigation' = [file |-> file, from |-> req, request |-> req,
                              response |-> answer, hops |-> 0]
            /\ response' = answer
            /\ UNCHANGED <<tableVars, attachVars, profileVars, env, cookieStore, now>>

\* the browser follows the redirect it was answered with, sending the cookie
\* the navigation began with
FollowRedirect ==
    /\ navigation # Null
    /\ navigation.response.kind = "redirect"
    /\ LET req == RequestFor(navigation.response.location, navigation.request)
           answer == ProxyOf(navigation.file, req)
       IN  /\ navigation' = [navigation EXCEPT !.request = req,
                                               !.response = answer,
                                               !.hops = @ + 1]
           /\ response' = answer
    /\ UNCHANGED <<tableVars, attachVars, profileVars, env, cookieStore, now>>

\* the page the navigation was answered with is shown: the navigation is over
Arrive ==
    /\ Settled
    /\ navigation' = Null
    /\ UNCHANGED <<tableVars, attachVars, profileVars, authVars>>

\* the names and the environments setProfile is called with
ProfileNames ==
    { NullString, <<>>, S_space, <<" ", "\t">>, <<"a">>, <<" ", "a", " ">>, <<"b">>, <<"a", " ", "b">> }

ProfileEnvs ==
    { EmptyEnv, [SENDER_EMAIL |-> S_ax], [SENDER_EMAIL |-> S_bx, SENDER_NAME |-> <<"B">>] }

SetProfile ==
    \E name \in ProfileNames, e \in ProfileEnvs :
        /\ setProfile(name, e)
        /\ UNCHANGED <<tableVars, attachVars, authVars, navigation>>

ClearAllProfiles ==
    clearAllProfiles /\ UNCHANGED <<tableVars, attachVars, authVars, navigation>>

GetActiveEnv ==
    /\ response' = getActiveEnv
    /\ UNCHANGED <<tableVars, attachVars, navigation, profileVars, env, cookieStore, now>>

TableNext ==
    \/ HandleFile
    \/ ChangeRecipient
    \/ ChangeName
    \/ ChangeSubject
    \/ InitializeManualEntry
    \/ SetManualRow
    \/ AddManualRow
    \/ CancelManualEntry
    \/ DeleteRow
    \/ Reset

AttachNext ==
    \/ UploadStart
    \/ UploadDecode
    \/ UploadFinish
    \/ ClearAll

AuthNext ==
    \/ Login
    \/ Logout
    \/ CheckAuth
    \/ Tick
    \/ Deploy

ProxyNext ==
    \/ Login
    \/ Logout
    \/ Tick
    \/ ForgeCookie
    \/ Proxy
    \/ Proxy003

Next ==
    TableNext \/ AttachNext \/ AuthNext \/ ForgeCookie \/ Proxy \/ Proxy003
        \/ Navigate \/ FollowRedirect \/ Arrive
        \/ SetProfile \/ ClearAllProfiles \/ GetActiveEnv

\* The whole system.
Spec == Init /\ [][Next]_vars

\* No action of CsvUploader reads or writes the attachment index or the
\* uploads, and no action of AttachmentsUploader writes the table: the
\* table's states are those of SpecTable, the index's those of SpecAttach.
SpecTable == Init /\ [][TableNext]_vars

SpecAttach == Init /\ [][AttachNext]_vars

\* The mapping inferred for the enumerated header rows: a file is loaded
\* into a component without a mapping.
GuessNext == LoadFirst

SpecGuess == Init /\ [][GuessNext]_vars

\* The reconciler reads the consumer's table, mapping and index: the tables
\* are loaded, re-mapped, trimmed by deletion and reset, the index is built
\* by uploads and cleared.
ReconcileNext ==
    \/ HandleFile
    \/ ChangeName
    \/ InitializeManualEntry
    \/ DeleteRow
    \/ Reset
    \/ UploadAlone
    \/ UploadDecode
    \/ UploadFinish
    \/ ClearAll

SpecReconcile == Init /\ [][ReconcileNext]_vars

\* The batch policy reads the index alone.
PolicyNext ==
    \/ UploadSized
    \/ UploadDecode
    \/ UploadFinish
    \/ ClearAll

SpecPolicy == Init /\ [][PolicyNext]_vars

\* The index under uploads that overlap each other and the Clear button.
OverlapNext ==
    \/ UploadOverlap
    \/ UploadDecode
    \/ UploadFinish
    \/ ClearAll

SpecOverlap == Init /\ [][OverlapNext]_vars

\* fileBaseName over the enumerated filenames: each is uploaded by itself.
NamesNext ==
    \/ UploadNamed
    \/ UploadDecode
    \/ UploadFinish
    \/ ClearAll

SpecNames == Init /\ [][NamesNext]_vars

\* normalizeNameKey over the names of letters and whitespace: each is
\* uploaded by itself.
KeysNext ==
    \/ UploadSpaced
    \/ UploadDecode
    \/ UploadFinish
    \/ ClearAll

SpecKeys == Init /\ [][KeysNext]_vars

\* The batch policy beside the table: the table is loaded, re-mapped,
\* appended to, trimmed by deletion and reset while the index holds one file.
FlagNext ==
    \/ HandleFile
    \/ ChangeName
    \/ InitializeManualEntry
    \/ SetManualRow
    \/ AddManualRow
    \/ DeleteRow
    \/ Reset
    \/ UploadHazard
    \/ UploadDecode
    \/ UploadFinish
    \/ ClearAll

SpecFlag == Init /\ [][FlagNext]_vars

\* The session: the server actions, the clock and the environment.  No
\* server action reads or writes the table or the index.
SpecAuth == Init /\ [][AuthNext]_vars

\* Route protection: the proxies answer requests that carry the cookie the
\* browser holds, written by a server action or by hand.
SpecProxy == Init /\ [][ProxyNext]_vars

\* the user signs in and out between navigations
RedirectNext ==
    \/ navigation = Null /\ Login
    \/ navigation = Null /\ Logout
    \/ Navigate
    \/ FollowRedirect
    \/ Arrive

\* Navigations: the browser follows the redirects it is answered with.
SpecRedirect == Init /\ [][RedirectNext]_vars

ProfileNext ==
    \/ SetProfile
    \/ ClearAllProfiles
    \/ GetActiveEnv

\* The sender profiles: nothing else reads or writes the profile store.
SpecProfiles == Init /\ [][ProfileNext]_vars


----------------------------------------------------------------------------
(* Reconciliation: what the claims say of the result, stated over the rows *)
(* and the buckets themselves.                                             *)

\* the result shown for the table, mapping and index the consumer holds
Result == computed(pCsv, pMapping, value)

\* the entries of an index, counted one by one
EntryCount(index) ==
    Cardinality(UNION {{<<b, e>> : e \in 1..Len(index[b].arr)} : b \in 1..Len(index)})

\* some row of the table handed to the reconciler carries the key as its name
RowCarries(i, key) ==
    normalizeNameKey(Cell(pCsv.rows[i], pMapping.name)) = key

KeyIsNamed(key) ==
    /\ pCsv # Null
    /\ pMapping # Null
    /\ \E i \in 1..Len(pCsv.rows) : RowCarries(i, key)

NamedBuckets == SelectSeq(value, LAMBDA b : KeyIsNamed(b.key))
UnnamedBuckets == SelectSeq(value, LAMBDA b : ~ KeyIsNamed(b.key))

RECURSIVE AllFilenames(_)
AllFilenames(buckets) ==
    IF buckets = <<>> THEN <<>>
    ELSE Filenames(Head(buckets).arr) \o AllFilenames(Tail(buckets))

\* C1: matched + unmatched is the number of attachment entries, and the
\* unmatched count is the length of the list of unmatched filenames.
C1_Conservation ==
    /\ Result.matched + Result.unmatched = EntryCount(value)
    /\ Result.unmatched = Len(Result.unmatchedFiles)

C1_Witness ==
    /\ Result.matched >= 1
    /\ Len(Result.unmatchedFiles) >= 1

\* C2: a bucket is matched exactly when its key is the normalized name-column
\* value of some row of the table the reconciler is given, under the mapping
\* it is given; the other buckets, all of them when it is given no table or
\* no mapping, put all their filenames in the unmatched list and none in the
\* match pairs.
C2_MatchedIffNamed ==
    /\ Result.matched = EntryCount(NamedBuckets)
    /\ Result.unmatchedFiles = AllFilenames(UnnamedBuckets)
    /\ Len(Result.matchedPairs) = Len(NamedBuckets)
    /\ \A j \in 1..Len(Result.matchedPairs) :
          Result.matchedPairs[j].files = Filenames(NamedBuckets[j].arr)
    /\ (pCsv = Null \/ pMapping = Null) =>
          /\ Result.matched = 0
          /\ Result.matchedPairs = <<>>
          /\ Len(Result.unmatchedFiles) = EntryCount(value)

\* a file whose name differs from the row's name in case and spacing is
\* matched, beside an unmatched one
C2_Witness ==
    /\ Len(NamedBuckets) = 1
    /\ Len(UnnamedBuckets) = 1
    /\ \E i \in 1..Len(pCsv.rows) :
          /\ RowCarries(i, NamedBuckets[1].key)
          /\ Cell(pCsv.rows[i], pMapping.name) # NamedBuckets[1].key

\* C4: the name of a match pair is the name-column value, as written, of the
\* first row in row order whose normalized name-column value is the key.
C4_FirstRowName ==
    \A j \in 1..Len(NamedBuckets) :
        /\ j <= Len(Result.matchedPairs)
        /\ \E i \in 1..Len(pCsv.rows) :
              /\ RowCarries(i, NamedBuckets[j].key)
              /\ \A h \in 1..(i - 1) : ~ RowCarries(h, NamedBuckets[j].key)
              /\ Result.matchedPairs[j].name = Cell(pCsv.rows[i], pMapping.name)

\* two rows carry the key, written differently, and the first one names the pair
C4_Witness ==
    /\ Len(NamedBuckets) >= 1
    /\ Len(pCsv.rows) = 2
    /\ RowCarries(1, NamedBuckets[1].key)
    /\ RowCarries(2, NamedBuckets[1].key)
    /\ Cell(pCsv.rows[1], pMapping.name) # Cell(pCsv.rows[2], pMapping.name)
    /\ Result.matchedPairs[1].name = Cell(pCsv.rows[1], pMapping.name)

\* C5: rows of the same name collapse: every matched key has one match pair
\* and its entries are counted once, however many rows carry the name.
C5_OnePairPerKey ==
    LET matchedKeys == {k \in Keys(value) : KeyIsNamed(k)}
    IN  /\ Len(Result.matchedPairs) = Cardinality(matchedKeys)
        /\ \A k \in matchedKeys :
              Cardinality({j \in 1..Len(Result.matchedPairs) :
                  Result.matchedPairs[j].files = Filenames(Bucket(value, k))}) = 1
        /\ Result.matched = EntryCount(SelectSeq(value, LAMBDA b : b.key \in matchedKeys))

\* two rows carry the name of a bucket of two files
C5_Witness ==
    /\ Len(NamedBuckets) = 1
    /\ Len(NamedBuckets[1].arr) = 2
    /\ Cardinality({i \in 1..Len(pCsv.rows) : RowCarries(i, NamedBuckets[1].key)}) = 2
    /\ Len(Result.matchedPairs) = 1
    /\ Result.matched = 2


\* the key an uploaded file is stored under
KeyOf(file) == normalizeNameKey(fileBaseName(file.name))

----------------------------------------------------------------------------
(* The batch policy.                                                       *)

AllEntries(index) ==
    UNION {{index[b].arr[e] : e \in 1..Len(index[b].arr)} : b \in 1..Len(index)}

\* the letters p, d, f in any case somewhere in the declared type
DeclaredPdf(entry) ==
    /\ "contentType" \in DOMAIN entry
    /\ \E i \in 1..(Len(entry.contentType) - 2) :
          /\ entry.contentType[i] \in {"p", "P"}
          /\ entry.contentType[i + 1] \in {"d", "D"}
          /\ entry.contentType[i + 2] \in {"f", "F"}

\* the filename ends in .pdf in any case
NamedPdf(entry) ==
    LET n == Len(entry.filename)
    IN  /\ n >= 4
        /\ entry.filename[n - 3] = "."
        /\ entry.filename[n - 2] \in {"p", "P"}
        /\ entry.filename[n - 1] \in {"d", "D"}
        /\ entry.filename[n] \in {"f", "F"}

Hazard(entry) ==
    /\ DeclaredPdf(entry) \/ NamedPdf(entry)
    /\ "sizeBytes" \in DOMAIN entry
    /\ entry.sizeBytes \in 1048576..2097152

\* C6: the restriction flag is set exactly when some entry is a PDF by its
\* declared type or by its name and has a size within [1048576, 2097152];
\* entries of 1048575 or 2097153 bytes or of no declared size never set it.
C6_FlagIffHazard ==
    /\ largePdfDetected(value) <=> \E entry \in AllEntries(value) : Hazard(entry)
    /\ (\A entry \in AllEntries(value) :
            "sizeBytes" \in DOMAIN entry => entry.sizeBytes \in {1048575, 2097153})
          => ~ largePdfDetected(value)

\* one entry, a PDF by its name alone and of exactly 1 MiB, sets the flag
C6_Witness ==
    /\ largePdfDetected(value)
    /\ Cardinality(AllEntries(value)) = 1
    /\ \A entry \in AllEntries(value) :
          /\ "contentType" \notin DOMAIN entry
          /\ entry.sizeBytes = 1048576

----------------------------------------------------------------------------
(* The recipient table.                                                    *)

\* the value typed for the mapped recipient column is empty after trimming
RecipientBlank ==
    /\ mapping # Null
    /\ Trim(Cell(manualRow, mapping.recipient)) = <<>>

\* C7: a manual append whose value for the mapped recipient column is empty
\* after trimming reports an error and changes neither the table nor what
\* the consumer holds; no row is created.
C7_BlankRecipientRejected ==
    [][(addManualRow /\ RecipientBlank)
          => /\ error' = ErrRequired
             /\ csv' = csv
             /\ pCsv' = pCsv
             /\ pMapping' = pMapping]_vars

\* the row with only spaces for the recipient was refused and is still typed in
C7_Witness ==
    /\ showManualEntry
    /\ error = ErrRequired
    /\ RecipientBlank
    /\ Cell(manualRow, mapping.recipient) = S_space
    /\ Cell(manualRow, mapping.name) = S_JANEdoe
    /\ csv.rows = <<>>

\* C8: loading a table without headers reports an error and leaves the table,
\* the mapping and what the consumer holds as they were.
C8_NoHeadersRejected ==
    [][\A results \in CsvFiles :
          (handleFile(results) /\ Len(results.fields) = 0)
             => /\ error' = ErrNoHeaders
                /\ csv' = csv
                /\ mapping' = mapping
                /\ pCsv' = pCsv
                /\ pMapping' = pMapping]_vars

\* the error is shown over a loaded table that is still there
C8_Witness ==
    /\ error = ErrNoHeaders
    /\ csv # Null
    /\ Len(csv.rows) = 2
    /\ pCsv = csv
    /\ pMapping = mapping

\* C9: whenever a table exists, the mapping's recipient column and name
\* column are headers of the table.
C9_MappingWithinHeaders ==
    csv # Null =>
        /\ mapping # Null
        /\ mapping.recipient \in HeaderSet(csv)
        /\ mapping.name \in HeaderSet(csv)


----------------------------------------------------------------------------
(* Ingestion.                                                              *)

\* how often an entry occurs in an index
Occurrences(entry, index) ==
    Cardinality(UNION {{<<b, e>> : e \in {i \in 1..Len(index[b].arr) : index[b].arr[i] = entry}} :
                          b \in 1..Len(index)})

ReadableOf(files) == SelectSeq(files, LAMBDA f : f.readable)
UnreadableOf(files) == SelectSeq(files, LAMBDA f : ~ f.readable)
NamesOf(files) == [i \in 1..Len(files) |-> files[i].name]

\* C10: when an upload call completes, every file of the call that could be
\* read has its entry appended to the index and is not reported, every file
\* that could not be read is reported as failed and has no entry, the index
\* is replaced although files failed, and the server action, given the same
\* files, succeeds with the same split into items and failed.
C10_EveryFilePlaced ==
    [][\A k \in 1..Len(uploads) :
          onUploadFinish(k) =>
              LET u == uploads[k]
                  good == ReadableOf(u.files)
                  bad == UnreadableOf(u.files)
                  result == uploadAttachmentsAction([isFormData |-> TRUE, files |-> u.files])
              IN  /\ \A j \in 1..Len(good) :
                        Occurrences(EntryOf(good[j]), value')
                            = Occurrences(EntryOf(good[j]), u.base)
                                + Cardinality({h \in 1..Len(good) : good[h] = good[j]})
                  /\ \A j \in 1..Len(bad) :
                        Occurrences(EntryOf(bad[j]), value')
                            = Occurrences(EntryOf(bad[j]), u.base)
                  /\ EntryCount(value') = EntryCount(u.base) + Len(good)
                  /\ u.failed = NamesOf(bad)
                  /\ Len(good) + Len(u.failed) = Len(u.files)
                  /\ bad # <<>> => uploadError' = FailedMessage(NamesOf(bad))
                  /\ result.ok
                  /\ result.failed = NamesOf(bad)
                  /\ result.items = [j \in 1..Len(good) |->
                                        [key |-> KeyOf(good[j]), entry |-> EntryOf(good[j])]]
      ]_vars

\* a call whose first file failed has appended the file after it
C10_Witness ==
    \E k \in 1..Len(uploads) :
        LET u == uploads[k]
        IN  /\ Len(u.files) = 2
            /\ u.i > Len(u.files)
            /\ ~ u.files[1].readable
            /\ u.files[2].readable
            /\ u.failed = <<u.files[1].name>>
            /\ Occurrences(EntryOf(u.files[2]), u.next)
                  = Occurrences(EntryOf(u.files[2]), u.base) + 1

----------------------------------------------------------------------------
(* The index over time.                                                    *)

\* C11: no step other than a clear removes an entry from the index: every
\* entry of the index is in it as often or more often after the step, also
\* when uploads overlap.
C11_NoEviction ==
    [][(~ clearAll) =>
          \A entry \in AllEntries(value) :
              Occurrences(entry, value') >= Occurrences(entry, value)]_vars

\* the entries an upload call has made of its files
EntriesOf(u) == {EntryOf(f) : f \in {u.files[i] : i \in {j \in 1..Len(u.files) : u.files[j].readable}}}

\* C12: a clear leaves an index without buckets, and the index gains no
\* entry but those of the files of the upload call that completes: an entry
\* that a clear removed is back only when a call uploaded it again.
C12_ClearedStaysCleared ==
    [][/\ clearAll => value' = <<>>
       /\ \A k \in 1..Len(uploads) :
             onUploadFinish(k) =>
                \A entry \in AllEntries(value') :
                    \/ entry \in EntriesOf(uploads[k])
                    \/ Occurrences(entry, value') <= Occurrences(entry, value)]_vars
----------------------------------------------------------------------------
(* Base names.                                                             *)

\* the positions of the dots of a filename
Dots(name) == {i \in 1..Len(name) : name[i] = "."}

\* C13: the base name computed for the file an upload call decodes is the
\* filename up to, and without, its last "." when that "." is not the first
\* character, and the whole filename when it has no "." or its only "." is
\* the first character; report.v2.pdf gives report.v2, README and
\* .gitignore give themselves.
C13_BaseName ==
    [][\A k \in 1..Len(uploads) :
          onUploadDecode(k) =>
              LET name == uploads[k].files[uploads[k].i].name
                  base == fileBaseName(name)
              IN  /\ IF Dots(name) \subseteq {1}
                     THEN base = name
                     ELSE /\ Len(base) + 1 \in Dots(name)
                          /\ \A i \in Dots(name) : i <= Len(base) + 1
                          /\ Len(base) >= 1
                          /\ \A i \in 1..Len(base) : base[i] = name[i]
                  /\ name = S_report_v2_pdf => base = S_report_v2
                  /\ name = S_README => base = S_README
                  /\ name = S_gitignore => base = S_gitignore]_vars

\* report.v2.pdf was decoded and is kept under the key of report.v2
C13_Witness ==
    /\ Len(uploads) = 1
    /\ uploads[1].i = 2
    /\ uploads[1].files[1].name = S_report_v2_pdf
    /\ fileBaseName(S_report_v2_pdf) = S_report_v2
    /\ Keys(uploads[1].next) = {normalizeNameKey(S_report_v2)}
----------------------------------------------------------------------------
(* Mapping inference.                                                      *)

\* two strings are the same but for the case of their letters
SameButCase(a, b) ==
    /\ Len(a) = Len(b)
    /\ \A i \in 1..Len(a) :
          \/ a[i] = b[i]
          \/ \E n \in 1..26 : {a[i], b[i]} = {UpperChars[n], LowerChars[n]}

RecipientPatterns ==
    {<<"e", "m", "a", "i", "l">>, <<"e", "-", "m", "a", "i", "l">>, <<"r", "e", "c", "i", "p", "i", "e", "n", "t">>, <<"t", "o">>, <<"a", "d", "d", "r", "e", "s", "s">>}
NamePatterns ==
    {<<"n", "a", "m", "e">>} \cup {first \o sep \o <<"n", "a", "m", "e">> : first \in {<<"f", "u", "l", "l">>, <<"f", "i", "r", "s", "t">>}, sep \in {<<>>, <<" ">>, <<"_">>, <<"-">>}}
SubjectPatterns ==
    {<<"s", "u", "b", "j", "e", "c", "t">>, <<"t", "i", "t", "l", "e">>, <<"h", "e", "a", "d", "l", "i", "n", "e">>, <<"t", "o", "p", "i", "c">>}

IsOneOf(h, patterns) == \E w \in patterns : SameButCase(h, w)

\* the first header in header order that is one of the patterns, or the fallback
FirstOf(headers, patterns, fallback) ==
    IF \E i \in 1..Len(headers) : IsOneOf(headers[i], patterns)
    THEN headers[CHOOSE i \in 1..Len(headers) :
                    /\ IsOneOf(headers[i], patterns)
                    /\ \A j \in 1..(i - 1) : ~ IsOneOf(headers[j], patterns)]
    ELSE fallback

\* what Papa reported for the file, when the step loaded a file
LoadedResults == [fields |-> csv'.headers, data |-> csv'.rows]

\* C14: a load into a component without a mapping sets each mapping field to
\* the first header, in header order, that is one of the field's patterns
\* but for case and as a whole; without such a header recipient and name are
\* the first header and subject is none.  The consumer is handed this mapping.
C14_InferredMapping ==
    [][(mapping = Null /\ csv' # Null /\ handleFile(LoadedResults))
             => LET headers == LoadedResults.fields
                IN  /\ mapping'.recipient = FirstOf(headers, RecipientPatterns, headers[1])
                    /\ mapping'.name = FirstOf(headers, NamePatterns, headers[1])
                    /\ mapping'.subject = FirstOf(headers, SubjectPatterns, NullString)
                    /\ pMapping' = mapping'
                    /\ csv'.headers = headers]_vars

\* headers id, E-Mail: the recipient is the second header, found in another
\* case, the name falls back to the first and there is no subject
C14_Witness ==
    /\ csv # Null
    /\ csv.headers = <<S_id, S_EMail>>
    /\ mapping = [recipient |-> S_EMail, name |-> S_id, subject |-> NullString]
    /\ pMapping = mapping
\* the mapping that inference gives for a header row
Inferred(headers) ==
    [recipient |-> FirstOf(headers, RecipientPatterns, headers[1]),
     name |-> FirstOf(headers, NamePatterns, headers[1]),
     subject |-> FirstOf(headers, SubjectPatterns, NullString)]

\* C15: every load that brings a header row leaves the mapping inferred from
\* that header row, whatever mapping the component held for the table
\* loaded before, and hands that mapping to the consumer.
C15_ReloadReinfers ==
    [][\A results \in CsvFiles :
          (handleFile(results) /\ results.fields # <<>>)
             => /\ mapping' = Inferred(results.fields)
                /\ pMapping' = Inferred(results.fields)]_vars
----------------------------------------------------------------------------
(* Edits of the mapping and of the rows.                                   *)

MappingFields == {"recipient", "name", "subject"}

\* the option a select of the mapping was set to, when the step set it:
\* the field's new column, or the empty option for none
OptionSet(key) ==
    IF mapping' = Null \/ mapping'[key] = NullString THEN <<>> ELSE mapping'[key]

\* C16: setting one field of the mapping to an option sets that field to a
\* header or to none, and
\* leaves the other two fields and the table, headers and rows, as they
\* were; the consumer is handed that table and that mapping.
C16_OneFieldEdited ==
    [][\A key \in MappingFields :
          onChangeSelect(key, OptionSet(key))
             => /\ mapping # Null
                /\ OptionSet(key) \in HeaderSet(csv) \cup {<<>>}
                /\ \A other \in MappingFields \ {key} : mapping'[other] = mapping[other]
                /\ csv'.headers = csv.headers
                /\ csv'.rows = csv.rows
                /\ pCsv' = csv
                /\ pMapping' = mapping']_vars

\* the recipient select of a loaded table was set to the name column, and
\* the name and subject fields are as inferred
C16_Witness ==
    /\ csv # Null
    /\ csv.headers = <<S_name, S_email>>
    /\ Len(csv.rows) = 2
    /\ mapping = [recipient |-> S_name, name |-> S_name, subject |-> NullString]
    /\ pMapping = mapping
    /\ pCsv = csv
\* C17: every row of the table has exactly the table's headers as its
\* column names.
C17_RowsCarryHeaders ==
    csv # Null =>
        \A i \in 1..Len(csv.rows) : DOMAIN csv.rows[i] = HeaderSet(csv)
\* the rows of the table, none when there is no table
RowsOf(c) == IF c = Null THEN <<>> ELSE c.rows

\* C18: a manual append whose recipient is not blank adds one row, the row
\* typed in, after the rows of the table, which keep their positions, and
\* the consumer is handed these rows; every step leaves every row of the
\* table at its position or is a reset, a delete or a load.
C18_AppendAtEnd ==
    [][/\ (addManualRow /\ ~ RecipientBlank)
          => /\ csv'.rows = Append(RowsOf(csv), manualRow)
             /\ Len(csv'.rows) = Len(RowsOf(csv)) + 1
             /\ \A i \in 1..Len(RowsOf(csv)) : csv'.rows[i] = csv.rows[i]
             /\ csv'.rowCount = Len(csv'.rows)
             /\ pCsv' = csv'
       /\ \/ /\ Len(RowsOf(csv')) >= Len(RowsOf(csv))
             /\ \A i \in 1..Len(RowsOf(csv)) : csv'.rows[i] = csv.rows[i]
          \/ reset
          \/ \E i \in 0..(Len(RowsOf(csv)) - 1) : deleteRow(i)
          \/ \E results \in CsvFiles : handleFile(results)]_vars

\* a row typed in stands after the row of the loaded file
C18_Witness ==
    /\ csv # Null
    /\ csv.rows = <<Row1(S_email, S_jx), Row1(S_email, S_JANEdoe)>>
    /\ pCsv = csv
\* C19: the Delete button of row i (0-based) of a table of n rows leaves
\* n - 1 rows: the rows before i at their positions, the rows after i one
\* position lower in the same order; headers and mapping are unchanged and
\* the consumer is handed the shortened table.
C19_DeleteExactlyOne ==
    [][\A i \in 0..(Len(RowsOf(csv)) - 1) :
          deleteRow(i)
             => LET n == Len(csv.rows)
                IN  /\ Len(csv'.rows) = n - 1
                    /\ \A j \in 1..i : csv'.rows[j] = csv.rows[j]
                    /\ \A j \in (i + 1)..(n - 1) : csv'.rows[j] = csv.rows[j + 1]
                    /\ csv'.rowCount = n - 1
                    /\ csv'.headers = csv.headers
                    /\ mapping' = mapping
                    /\ pCsv' = csv'
                    /\ pMapping' = mapping]_vars

\* the first of the two rows of a loaded file was deleted: the second row
\* is now the first
C19_Witness ==
    /\ csv # Null
    /\ csv.headers = <<S_name, S_email>>
    /\ csv.rows = <<Row2(S_name, S_Bob, S_email, S_bx)>>
    /\ pCsv = csv
    /\ showManualEntry
\* C20: '+ Add Manually' without a table creates the table of the default
\* headers email, name without rows and the mapping onto these headers;
\* with a table it leaves the table's headers and rows and the mapping as
\* they are.  In both cases the manual-entry row is shown, blank.
C20_InitializeOnlyWithoutTable ==
    [][initializeManualEntry
          => /\ IF csv = Null
                THEN /\ csv' = [headers |-> <<S_email, S_name>>, rows |-> <<>>, rowCount |-> 0]
                     /\ mapping' = [recipient |-> S_email, name |-> S_name,
                                    subject |-> NullString]
                ELSE /\ csv' = csv
                     /\ mapping' = mapping
             /\ showManualEntry'
             /\ \A h \in DOMAIN manualRow' : manualRow'[h] = <<>>
             /\ DOMAIN manualRow' = HeaderSet(csv')]_vars

\* manual entry was opened over the loaded file of one column and one row
C20_Witness ==
    /\ showManualEntry
    /\ csv # Null
    /\ csv.headers = <<S_email>>
    /\ csv.rows = <<Row1(S_email, S_jx)>>
    /\ manualRow = Row1(S_email, <<>>)
    /\ mapping # Null
    /\ mapping.recipient = S_email
----------------------------------------------------------------------------
(* What the consumer holds.                                                *)

\* C21: the table and the mapping last handed to the consumer are the
\* table and the mapping of the component, in every state: after a load, a
\* manual-entry initialization, a mapping edit, an append, a delete and a
\* reset.
C21_ConsumerInSync ==
    /\ pCsv = csv
    /\ pMapping = mapping
----------------------------------------------------------------------------
(* Keys.                                                                   *)

\* C22: the key computed for the file an upload call decodes is its own
\* key: normalizing the normalized base name gives the normalized base name
\* again, and so for the empty string.
C22_Idempotent ==
    [][\A k \in 1..Len(uploads) :
          onUploadDecode(k) =>
              LET x == fileBaseName(uploads[k].files[uploads[k].i].name)
              IN  /\ normalizeNameKey(normalizeNameKey(x)) = normalizeNameKey(x)
                  /\ normalizeNameKey(normalizeNameKey(<<>>)) = normalizeNameKey(<<>>)
                  /\ Keys(DecodeOne(uploads[k]).next) = {normalizeNameKey(x)}]_vars

\* a name with a capital and a run of whitespace is kept under a key that
\* differs from it and is its own key
C22_Witness ==
    /\ Len(value) = 1
    /\ Len(value[1].arr) = 1
    /\ value[1].arr[1].filename = <<"A", " ", "\t", "a">>
    /\ value[1].key # value[1].arr[1].filename
    /\ normalizeNameKey(value[1].arr[1].filename) = value[1].key
    /\ normalizeNameKey(value[1].key) = value[1].key

----------------------------------------------------------------------------
(* The batch restriction flag beside the table and under uploads.          *)

\* the buckets of an index whose key is the name of no row of the table
UnmatchedBuckets(c, m, index) == SelectSeq(index, LAMBDA b : b.key \notin rowsNameSet(c, m))

\* C28: the batch restriction flag is a function of the attachment index
\* alone: no step that changes the table or the mapping (load, append,
\* delete, reset, mapping edit) changes it, and an entry of the type and
\* size of the condition sets it whether or not its bucket matches a
\* recipient.
C28_FlagReadsIndexOnly ==
    [][/\ (<<pCsv, pMapping, csv, mapping>>' # <<pCsv, pMapping, csv, mapping>>) =>
              (largePdfDetected(value') <=> largePdfDetected(value))
       /\ (\E entry \in AllEntries(value') : Hazard(entry)) => largePdfDetected(value')]_vars

C28_Witness ==
    /\ largePdfDetected(value)
    /\ UnmatchedBuckets(pCsv, pMapping, value) = value
    /\ pCsv # Null
    /\ Len(pCsv.rows) = MaxRows
    /\ pCsv.rows[MaxRows][S_email] = S_JANEdoe

\* C29: once the batch restriction flag is set it stays set until clear is
\* invoked, whatever the interleaving of the upload events, and right after
\* a clear it is not set.
C29_FlagUntilClear ==
    [][/\ (largePdfDetected(value) /\ ~clearAll) => largePdfDetected(value')
       /\ clearAll => ~largePdfDetected(value')]_vars

\* the files of an upload call that were read and whose base name
\* normalizes to the key, in the order they were chosen in
ReadOfKey(u, key) == SelectSeq(u.files, LAMBDA f : f.readable /\ KeyOf(f) = key)

----------------------------------------------------------------------------
(* The session.                                                            *)

\* the admin credentials are configured: both are set, the email to more
\* than whitespace
Configured ==
    /\ env.ADMIN_EMAIL # NullString
    /\ Trim(env.ADMIN_EMAIL) # <<>>
    /\ env.ADMIN_PASSWORD # NullString
    /\ env.ADMIN_PASSWORD # <<>>

\* what a login form has to hold for the login to succeed
Accepted(email, password) ==
    /\ email # <<>>
    /\ password # <<>>
    /\ Configured
    /\ ToLowerCase(Trim(email)) = ToLowerCase(Trim(env.ADMIN_EMAIL))
    /\ password = env.ADMIN_PASSWORD

\* C23: loginAction stores an auth cookie and returns success exactly when
\* email and password are non-empty, the admin credentials are configured,
\* the email is the admin email after trimming and lower-casing and the
\* password is the admin password; otherwise it returns a failure with an
\* error message and the cookie store is as it was.
C23_LoginIff ==
    [][\A email \in Emails, password \in Passwords :
          loginAction(email, password) =>
              IF Accepted(email, password)
              THEN /\ response' = [success |-> TRUE]
                   /\ FromBase64(cookieStore') = email \o <<":">> \o NumberToString(now)
              ELSE /\ response'.success = FALSE
                   /\ response'.error \in {M_required, M_invalid}
                   /\ cookieStore' = cookieStore]_vars

C23_Witness ==
    /\ response = [success |-> TRUE]
    /\ Truthy(cookieStore)
    /\ Head(Split(FromBase64(cookieStore), ":")) = S_Ax_led
    /\ env = EnvAdmin

\* C24: after logoutAction, checkAuthAction reports authenticated: false
\* until the next successful loginAction: a logout leaves the session
\* unauthenticated whatever it was before, and nothing but a successful
\* login makes an unauthenticated session authenticated.
C24_LoggedOutUntilLogin ==
    [][/\ logoutAction => ~checkAuthFor(cookieStore', now').authenticated
       /\ (~checkAuthResult.authenticated
              /\ checkAuthFor(cookieStore', now').authenticated) =>
              \E email \in Emails, password \in Passwords :
                  /\ loginAction(email, password)
                  /\ response' = [success |-> TRUE]]_vars

C24_Witness ==
    /\ cookieStore = <<>>
    /\ response = [success |-> TRUE]
    /\ now >= maxAge
    /\ ~checkAuthResult.authenticated

----------------------------------------------------------------------------
(* Route protection.                                                       *)

\* a request for an HTML page of a protected path: not the login page, not
\* the signup page, not a public path
ProtectedPage(req) ==
    /\ isHtmlRequest(req)
    /\ req.pathname \notin {S_login, S_signup}
    /\ ~isPublicPath(req.pathname)

\* the value a redirect carries in its redirect parameter
RedirectParameter(resp) == searchParamsGet(UrlSearch(resp.location), S_redirect)

\* C25: proxy.ts never passes through a request for a protected HTML page
\* that carries no auth cookie: it redirects it to /login with the redirect
\* parameter set to the path and the query string of the request; the root
\* path is not a public path.
C25_ProtectedRedirect ==
    /\ ~isPublicPath(S_root)
    /\ \A req \in Requests :
          (~Truthy(req.cookie) /\ ProtectedPage(req)) =>
              /\ proxy(req).kind = "redirect"
              /\ UrlPathname(proxy(req).location) = S_login
              /\ RedirectParameter(proxy(req)) = req.pathname \o req.search

C25_Witness ==
    /\ ~Truthy(cookieStore)
    /\ response \in {proxy(req) : req \in {r \in Requests : ProtectedPage(r)}}
    /\ response.kind = "redirect"
    /\ RedirectParameter(response) = <<"/", "a", "p", "p", "?", "a", "=", "1">>

\* C26: both proxies treat a request as authenticated exactly when
\* checkAuthAction would report authenticated: true for the same cookie at
\* the same time: a request for a protected HTML page is passed through by
\* proxy.ts and by the proxy of part_003 when checkAuthAction accepts its
\* cookie and is redirected to /login when it does not.
C26_ProxiesValidate ==
    \A req \in Requests :
        ProtectedPage(req) =>
            /\ (proxy(req) = ResponseNext) <=> checkAuthResult.authenticated
            /\ (proxy003(req) = ResponseNext) <=> checkAuthResult.authenticated
            /\ ~checkAuthResult.authenticated =>
                   /\ UrlPathname(proxy(req).location) = S_login
                   /\ UrlPathname(proxy003(req).location) = S_login

----------------------------------------------------------------------------
(* Navigations end.                                                        *)

\* C31: following the proxy's redirects from any initial request, with the
\* cookie that request carried, takes finitely many redirects and so ends at
\* a passed-through response: every redirect followed but the last was asked
\* for by a redirect parameter of the initial query string, nested in the
\* one before it.  There is no redirect loop, also not for a /login request
\* whose redirect parameter points at /login.
C31_RedirectsEnd ==
    navigation # Null =>
        /\ navigation.response.kind \in {"next", "redirect"}
        /\ (navigation.hops - 1) * Len(S_redirect \o <<"=">>)
               <= Len(navigation.from.search)

\* a signed-in navigation to /login?redirect=/login was sent on to /login,
\* from there to / and was answered with the page
C31_Witness ==
    /\ Settled
    /\ Truthy(navigation.from.cookie)
    /\ navigation.from.pathname = S_login
    /\ navigation.from.search = RedirectSearch(S_login)
    /\ navigation.hops = 2
    /\ navigation.request.pathname = S_root

----------------------------------------------------------------------------
(* The sender profiles.                                                    *)

\* an empty or whitespace-only name, or none
BlankName(name) ==
    ~Truthy(name) \/ \A i \in 1..Len(name) : name[i] \in WhiteSpace

\* C32: after any sequence of setProfile and clearAllProfiles calls the
\* active profile name is null or a key of the profile store; setProfile
\* with a blank name changes neither the store nor the active name; and
\* after clearAllProfiles getActiveEnv returns an empty environment and
\* listProfiles an empty list.
C32_ProfilesConsistent ==
    /\ [](activeProfileName = NullString \/ MapHas(profileStore, activeProfileName))
    /\ [][/\ \A name \in ProfileNames, e \in ProfileEnvs :
                 BlankName(name) /\ setProfile(name, e)
                     => UNCHANGED <<profileStore, activeProfileName>>
          /\ clearAllProfiles
                 => /\ getActiveEnvOf(profileStore', activeProfileName') = EmptyEnv
                    /\ listProfilesOf(profileStore') = <<>>]_vars

\* getActiveEnv returned the environment of a profile, and the profiles
\* were cleared after that
C32_Witness ==
    /\ response \in ProfileEnvs \ {EmptyEnv}
    /\ profileStore = <<>>
    /\ activeProfileName = NullString
    /\ getActiveEnv = EmptyEnv
    /\ listProfiles = <<>>

====
